---- MODULE Spec2Model ----
(***************************************************************************)
(* Model of detective-benno: the review orchestrator and its diff          *)
(* segmenter (reviewer.py), the shared response parser (providers/base.py),*)
(* the providers' review operations (providers/*.py), the provider         *)
(* registry (providers/factory.py), the model resolution (models.py,       *)
(* cli.py), the connection handles of the providers and of GitHubAPI       *)
(* (github/api.py), the properties of ReviewComment and ReviewResult       *)
(* (models.py) and the exit code of the review commands (cli.py).          *)
(*                                                                         *)
(* Text is a sequence of one-character strings.  A backend reply text is a *)
(* sequence of tokens: "{" and "}" are brace characters, "K" is the member *)
(* "comments": <value> (its value is carried beside the text), "A" is a    *)
(* JSON array literal and "w" a word of prose.                             *)
(***************************************************************************)
EXTENDS Integers, Sequences, FiniteSets, TLC

(***************************************************************************)
(* Bounds of the model.                                                    *)
(***************************************************************************)
MaxFiles == 2
MaxPatterns == 2
MaxCommentsCfg == 2
MaxItems == 2
MaxTextLen == 4

(***************************************************************************)
(* JSON values of the fields of a comment object.  t is the JSON type;     *)
(* "absent" means the key is not in the object.                            *)
(***************************************************************************)
JAbsent == [t |-> "absent", n |-> 0, s |-> ""]
JNull == [t |-> "null", n |-> 0, s |-> ""]
JInt(k) == [t |-> "int", n |-> k, s |-> ""]
JStr(x) == [t |-> "str", n |-> 0, s |-> x]

\* dict.get(key, default): the default only when the key is absent.
DictGet(v, default) == IF v.t = "absent" THEN default ELSE v

\* dict.get(key): None when the key is absent.
DictGetNone(v) == DictGet(v, JNull)

\* models.py Severity: the closed set of severity values.
Severity == {"critical", "warning", "suggestion", "info"}

(***************************************************************************)
(* base.py _parse_response, the body of the try block: one comment object  *)
(* to one ReviewComment.  The result is [ok |-> FALSE] when Severity(...)  *)
(* raises ValueError or pydantic refuses a field (ValidationError is a     *)
(* ValueError): line_start must be an int, line_end an int or None,        *)
(* category and message a str.                                             *)
(***************************************************************************)
NoComment == [ok |-> FALSE, file_path |-> <<>>, line_start |-> 0, line_end |-> JNull,
              severity |-> "", category |-> "", message |-> ""]

\* The mapping with "info" and "general" as the defaults of severity and category.
MapItem_DefaultInfo(item, file_path) ==
    LET line_start == DictGet(item.line_start, JInt(1))
        line_end == DictGetNone(item.line_end)
        severity == DictGet(item.severity, JStr("info"))
        category == DictGet(item.category, JStr("general"))
        message == DictGet(item.message, JStr(""))
    IN  IF /\ line_start.t = "int"
           /\ line_end.t \in {"int", "null"}
           /\ severity.t = "str" /\ severity.s \in Severity
           /\ category.t = "str"
           /\ message.t = "str"
        THEN [ok |-> TRUE, file_path |-> file_path, line_start |-> line_start.n,
              line_end |-> line_end, severity |-> severity.s,
              category |-> category.s, message |-> message.s]
        ELSE NoComment

MapItem(item, file_path) ==
    LET line_start == DictGet(item.line_start, JInt(1))
        line_end == DictGetNone(item.line_end)
        severity == DictGet(item.severity, JStr("suggestion"))
        category == DictGet(item.category, JStr("best-practice"))
        message == DictGet(item.message, JStr(""))
    IN  IF /\ line_start.t = "int"
           /\ line_end.t \in {"int", "null"}
           /\ severity.t = "str" /\ severity.s \in Severity
           /\ category.t = "str"
           /\ message.t = "str"
        THEN [ok |-> TRUE, file_path |-> file_path, line_start |-> line_start.n,
              line_end |-> line_end, severity |-> severity.s,
              category |-> category.s, message |-> message.s]
        ELSE NoComment

\* The ReviewComment of a successful mapping (the ok flag is not a field of it).
AsComment(m) == [file_path |-> m.file_path, line_start |-> m.line_start,
                 line_end |-> m.line_end, severity |-> m.severity,
                 category |-> m.category, message |-> m.message]

(***************************************************************************)
(* Outcomes of a call: a return value or a raised exception.               *)
(***************************************************************************)
Returned(cs, tok) == [kind |-> "return", exc |-> "", comments |-> cs, tokens |-> tok]
Raised(e) == [kind |-> "raise", exc |-> e, comments |-> <<>>, tokens |-> 0]
NotCalled == [kind |-> "none", exc |-> "", comments |-> <<>>, tokens |-> 0]

(***************************************************************************)
(* base.py _parse_response: the for loop over response.get("comments", []).*)
(* An element that is not an object has no .get: AttributeError, which the *)
(* except clause (ValueError, KeyError) does not catch.                    *)
(***************************************************************************)
\* The loop leaving at the first comment that fails to map (break for continue).
RECURSIVE ParseLoop_BreakOnError(_, _, _, _)
ParseLoop_BreakOnError(items, k, acc, file_path) ==
    IF k > Len(items) THEN Returned(acc, 0)
    ELSE IF items[k].kind # "object" THEN Raised("AttributeError")
    ELSE LET m == MapItem(items[k], file_path)
         IN  IF m.ok THEN ParseLoop_BreakOnError(items, k + 1, Append(acc, AsComment(m)), file_path)
             ELSE Returned(acc, 0)

RECURSIVE ParseLoop(_, _, _, _)
ParseLoop(items, k, acc, file_path) ==
    IF k > Len(items) THEN Returned(acc, 0)
    ELSE IF items[k].kind # "object" THEN Raised("AttributeError")
    ELSE LET m == MapItem(items[k], file_path)
         IN  ParseLoop(items, k + 1, IF m.ok THEN Append(acc, AsComment(m)) ELSE acc, file_path)

(***************************************************************************)
(* base.py _parse_response.  response is the value json.loads returned:    *)
(* kind "dict", "list" or "scalar"; comments is the value of the key       *)
(* "comments" of a dict: absent, a list of items, null, a number or a      *)
(* non-empty string.                                                       *)
(***************************************************************************)
ParseResponse(response, file_path) ==
    IF response.kind # "dict" THEN Raised("AttributeError")
    ELSE CASE response.comments.t = "absent" -> Returned(<<>>, 0)
           [] response.comments.t = "list" -> ParseLoop(response.comments.items, 1, <<>>, file_path)
           [] response.comments.t \in {"null", "int"} -> Raised("TypeError")
           [] OTHER -> Raised("AttributeError")

(***************************************************************************)
(* ollama.py _extract_json: the text from the first "{" to the "}" that    *)
(* brings the depth back to zero; "{}" when there is none.  The member     *)
(* token "K" holds balanced braces and leaves the depth as it is.          *)
(***************************************************************************)
EmptyObject == <<"{", "}">>

RECURSIVE FindOpen(_, _)
FindOpen(text, k) ==
    IF k > Len(text) THEN 0
    ELSE IF text[k] = "{" THEN k
    ELSE FindOpen(text, k + 1)

RECURSIVE ScanDepth(_, _, _, _)
ScanDepth(text, start, k, depth) ==
    IF k > Len(text) THEN EmptyObject
    ELSE IF text[k] = "{" THEN ScanDepth(text, start, k + 1, depth + 1)
    ELSE IF text[k] = "}"
         THEN IF depth - 1 = 0 THEN SubSeq(text, start, k)
              ELSE ScanDepth(text, start, k + 1, depth - 1)
    ELSE ScanDepth(text, start, k + 1, depth)

\* The extraction taken greedily, from the first "{" to the last "}".
ExtractJson_ToLastBrace(text) ==
    LET start == FindOpen(text, 1)
        closes == {k \in 1..Len(text) : k > start /\ text[k] = "}"}
    IN  IF start = 0 \/ closes = {} THEN EmptyObject
        ELSE SubSeq(text, start, CHOOSE k \in closes : \A l \in closes : l <= k)

ExtractJson(text) ==
    LET start == FindOpen(text, 1)
    IN  IF start = 0 THEN EmptyObject ELSE ScanDepth(text, start, start, 0)

(***************************************************************************)
(* json.loads on the token language: the documents are {} , {"comments":   *)
(* v}, an array and a number; every other text raises JSONDecodeError      *)
(* (kind "error").  comments is the value v carried beside the text.       *)
(***************************************************************************)
NoComments == [t |-> "absent", items |-> <<>>]

JsonLoads(text, comments) ==
    CASE text = <<"{", "}">> -> [kind |-> "dict", comments |-> NoComments]
      [] text = <<"{", "K", "}">> -> [kind |-> "dict", comments |-> comments]
      [] text = <<"A">> -> [kind |-> "list", comments |-> NoComments]
      [] text = <<"1">> -> [kind |-> "scalar", comments |-> NoComments]
      [] OTHER -> [kind |-> "error", comments |-> NoComments]

\* x or "{}": the empty text is falsy.
OrEmptyObject(text) == IF text = <<>> THEN EmptyObject ELSE text

\* A count the backend may leave out: 0 when it is absent (or None).
CountOrZero(v) == IF v.t = "int" THEN v.n ELSE 0

(***************************************************************************)
(* The tail shared by the OpenAI, Groq, Anthropic and Gemini providers:    *)
(*   try: data = json.loads(content); comments = _parse_response(...)      *)
(*   except json.JSONDecodeError: comments = []                            *)
(*   return comments, tokens_used                                          *)
(***************************************************************************)
ParseOrEmpty(content, reply, tokens_used, file_path) ==
    LET data == JsonLoads(content, reply.comments)
    IN  IF data.kind = "error" THEN Returned(<<>>, tokens_used)
        ELSE LET p == ParseResponse(data, file_path)
             IN  IF p.kind = "raise" THEN p ELSE Returned(p.comments, tokens_used)

(***************************************************************************)
(* A reply of a backend: status "ok" or the error the call raised; text is *)
(* the reply text; tok_a and tok_b are the counts the backend reports      *)
(* (OpenAI, Groq: usage.total_tokens, usage None when tok_a is absent;     *)
(* Anthropic: input_tokens, output_tokens; Gemini: prompt_token_count,     *)
(* candidates_token_count; Ollama: eval_count, prompt_eval_count).         *)
(***************************************************************************)
\* openai.py OpenAIProvider.review
OpenAIReview(reply, file_path) ==
    IF reply.status # "ok" THEN Raised(reply.status)
    ELSE LET tokens_used == CountOrZero(reply.tok_a)
             content == OrEmptyObject(reply.text)
         IN  ParseOrEmpty(content, reply, tokens_used, file_path)

\* groq.py GroqProvider.review
GroqReview(reply, file_path) ==
    IF reply.status # "ok" THEN Raised(reply.status)
    ELSE LET tokens_used == CountOrZero(reply.tok_a)
             content == OrEmptyObject(reply.text)
         IN  ParseOrEmpty(content, reply, tokens_used, file_path)

\* anthropic.py AnthropicProvider.review
AnthropicReview(reply, file_path) ==
    IF reply.status # "ok" THEN Raised(reply.status)
    ELSE LET tokens_used == CountOrZero(reply.tok_a) + CountOrZero(reply.tok_b)
             content == OrEmptyObject(reply.text)
         IN  ParseOrEmpty(content, reply, tokens_used, file_path)

\* gemini.py GeminiProvider.review
GeminiReview(reply, file_path) ==
    IF reply.status # "ok" THEN Raised(reply.status)
    ELSE LET tokens_used == CountOrZero(reply.tok_a) + CountOrZero(reply.tok_b)
             content == IF reply.text # <<>> THEN reply.text ELSE EmptyObject
         IN  ParseOrEmpty(content, reply, tokens_used, file_path)

(***************************************************************************)
(* ollama.py OllamaProvider.review: httpx.RequestError is re-raised as     *)
(* RuntimeError, every other error of the call propagates;                 *)
(* json.JSONDecodeError returns [], 0.  tokens_used is computed after the  *)
(* parse.                                                                  *)
(***************************************************************************)
\* The review letting a failed request through as the backend call raised it.
OllamaReview_Unwrapped(reply, file_path) ==
    IF reply.status # "ok" THEN Raised(reply.status)
    ELSE LET content == ExtractJson(reply.text)
             parsed == JsonLoads(content, reply.comments)
         IN  IF parsed.kind = "error" THEN Returned(<<>>, 0)
             ELSE LET p == ParseResponse(parsed, file_path)
                      tokens_used == CountOrZero(reply.tok_a) + CountOrZero(reply.tok_b)
                  IN  IF p.kind = "raise" THEN p
                      ELSE Returned(p.comments, tokens_used)

OllamaReview(reply, file_path) ==
    IF reply.status = "RequestError" THEN Raised("RuntimeError")
    ELSE IF reply.status # "ok" THEN Raised(reply.status)
    ELSE LET content == ExtractJson(reply.text)
             parsed == JsonLoads(content, reply.comments)
         IN  IF parsed.kind = "error" THEN Returned(<<>>, 0)
             ELSE LET p == ParseResponse(parsed, file_path)
                      tokens_used == CountOrZero(reply.tok_a) + CountOrZero(reply.tok_b)
                  IN  IF p.kind = "raise" THEN p
                      ELSE Returned(p.comments, tokens_used)

Providers == {"openai", "groq", "anthropic", "gemini", "ollama"}

\* The backend call of each provider's review.
BackendCall(name) ==
    CASE name = "openai" -> "chat.completions.create"
      [] name = "groq" -> "chat.completions.create"
      [] name = "anthropic" -> "messages.create"
      [] name = "gemini" -> "generate_content"
      [] name = "ollama" -> "POST /api/generate"

\* The requests of a review that repeats a failed backend call once.
BackendRequests_RetryOnError(name, reply) ==
    IF reply.status # "ok" THEN <<BackendCall(name), BackendCall(name)>>
    ELSE <<BackendCall(name)>>

\* The requests review issues, in order: the one backend call, made before
\* the reply (or the error it raises) is looked at.
BackendRequests(name, reply) == <<BackendCall(name)>>

\* provider.review(file, config, system_prompt, user_prompt), by provider class.
Review(name, reply, file_path) ==
    CASE name = "openai" -> OpenAIReview(reply, file_path)
      [] name = "groq" -> GroqReview(reply, file_path)
      [] name = "anthropic" -> AnthropicReview(reply, file_path)
      [] name = "gemini" -> GeminiReview(reply, file_path)
      [] name = "ollama" -> OllamaReview(reply, file_path)

(***************************************************************************)
(* fnmatch.fnmatch(path, pattern) on POSIX (os.path.normcase is the        *)
(* identity): the whole path must match; "*" matches any run of            *)
(* characters, "/" included, "?" any one character, every other character  *)
(* itself.  The patterns of the model hold no "[".                         *)
(***************************************************************************)
RECURSIVE Fnmatch(_, _)
Fnmatch(path, pattern) ==
    IF pattern = <<>> THEN path = <<>>
    ELSE IF Head(pattern) = "*"
         THEN \/ Fnmatch(path, Tail(pattern))
              \/ (path # <<>> /\ Fnmatch(Tail(path), pattern))
    ELSE IF Head(pattern) = "?"
         THEN path # <<>> /\ Fnmatch(Tail(path), Tail(pattern))
    ELSE path # <<>> /\ Head(path) = Head(pattern) /\ Fnmatch(Tail(path), Tail(pattern))

\* reviewer.py _should_ignore_file: the loop over config.ignore_files from pattern k on.
RECURSIVE IgnoreFrom(_, _, _)
IgnoreFrom(path, ignore_files, k) ==
    IF k > Len(ignore_files) THEN FALSE
    ELSE IF Fnmatch(path, ignore_files[k]) THEN TRUE
    ELSE IgnoreFrom(path, ignore_files, k + 1)

\* The check against the first pattern alone.
ShouldIgnoreFile_FirstPatternOnly(path, ignore_files) ==
    ignore_files # <<>> /\ Fnmatch(path, ignore_files[1])

\* reviewer.py _should_ignore_file
ShouldIgnoreFile(path, ignore_files) == IgnoreFrom(path, ignore_files, 1)

\* all_comments[:n] of Python: the first n elements, all but the last -n when n < 0.
PySlice(seq, n) ==
    IF n >= 0 THEN SubSeq(seq, 1, IF n < Len(seq) THEN n ELSE Len(seq))
    ELSE SubSeq(seq, 1, IF Len(seq) + n > 0 THEN Len(seq) + n ELSE 0)

\* A stable ordering of findings by severity, critical first; review_files applies none.
SeverityRank(c) ==
    CASE c.severity = "critical" -> 0
      [] c.severity = "warning" -> 1
      [] c.severity = "suggestion" -> 2
      [] OTHER -> 3

RECURSIVE OfRank(_, _)
OfRank(seq, r) ==
    IF seq = <<>> THEN <<>>
    ELSE (IF SeverityRank(Head(seq)) = r THEN <<Head(seq)>> ELSE <<>>) \o OfRank(Tail(seq), r)

BySeverity(seq) == OfRank(seq, 0) \o OfRank(seq, 1) \o OfRank(seq, 2) \o OfRank(seq, 3)

(***************************************************************************)
(* reviewer.py review_files, the loop body after _review_single_file:      *)
(*   all_comments.extend(result.comments)                                  *)
(*   total_tokens += result.tokens_used                                    *)
(*   files_reviewed += 1                                                   *)
(***************************************************************************)
\* The accumulation counting a file only when it has findings.
Accumulate_CountFindingsOnly(acc, res) ==
    [all_comments |-> acc.all_comments \o res.comments,
     total_tokens |-> acc.total_tokens + res.tokens,
     files_reviewed |-> acc.files_reviewed + (IF res.comments # <<>> THEN 1 ELSE 0)]

\* The accumulation adding the tokens of a file only when it has findings.
Accumulate_TokensOfFindingsOnly(acc, res) ==
    [all_comments |-> acc.all_comments \o res.comments,
     total_tokens |-> acc.total_tokens + (IF res.comments # <<>> THEN res.tokens ELSE 0),
     files_reviewed |-> acc.files_reviewed + 1]

Accumulate(acc, res) ==
    [all_comments |-> acc.all_comments \o res.comments,
     total_tokens |-> acc.total_tokens + res.tokens,
     files_reviewed |-> acc.files_reviewed + 1]

(***************************************************************************)
(* reviewer.py review_files, the return statement.                         *)
(***************************************************************************)
NoResult == [files_reviewed |-> 0, comments |-> <<>>, tokens_used |-> 0]

\* The result with the findings ordered by severity before the truncation.
BuildResult_SeverityFirst(acc, cfg) ==
    [files_reviewed |-> acc.files_reviewed,
     comments |-> PySlice(BySeverity(acc.all_comments), cfg.max_comments),
     tokens_used |-> acc.total_tokens]

BuildResult(acc, cfg) ==
    [files_reviewed |-> acc.files_reviewed,
     comments |-> PySlice(acc.all_comments, cfg.max_comments),
     tokens_used |-> acc.total_tokens]

(***************************************************************************)
(* Inputs.                                                                 *)
(***************************************************************************)
\* All sequences over S of length at most n.
SeqsUpTo(S, n) == UNION {[1..k -> S] : k \in 0..n}

\* Comment objects of a reply, and an element that is no object (a number).
ItemObjects ==
    [kind : {"object"},
     line_start : {JAbsent, JInt(0), JInt(2), JNull},
     line_end : {JAbsent, JInt(1)},
     severity : {JAbsent, JStr("critical"), JStr("bogus")},
     category : {JAbsent, JStr("security")},
     message : {JAbsent, JStr("m")}]

NonObject == [kind |-> "number", line_start |-> JAbsent, line_end |-> JAbsent,
              severity |-> JAbsent, category |-> JAbsent, message |-> JAbsent]

Items == ItemObjects \cup {NonObject}

ListOf(items) == [t |-> "list", items |-> items]
NotAList == {[t |-> "null", items |-> <<>>], [t |-> "int", items |-> <<>>],
             [t |-> "str", items |-> <<>>]}

\* The values json.loads can hand to _parse_response, with lists of up to n
\* comments.
Responses(n) ==
    {[kind |-> "dict", comments |-> ListOf(l)] : l \in SeqsUpTo(Items, n)}
    \cup {[kind |-> "dict", comments |-> c] : c \in NotAList \cup {NoComments}}
    \cup {[kind |-> k, comments |-> NoComments] : k \in {"list", "scalar"}}

\* Three comment objects used in whole replies.
Suggestion2 == [kind |-> "object", line_start |-> JInt(2), line_end |-> JAbsent,
                severity |-> JAbsent, category |-> JAbsent, message |-> JStr("m")]
Critical2 == [Suggestion2 EXCEPT !.severity = JStr("critical"), !.category = JStr("security")]
Bogus2 == [Suggestion2 EXCEPT !.severity = JStr("bogus")]

Tokens == {"{", "}", "K", "A", "w"}
Statuses == {"ok", "RequestError", "HTTPStatusError"}

\* The replies a provider's review is applied to.
ReviewReplies ==
    {[status |-> "ok", text |-> x, comments |-> c, tok_a |-> u[1], tok_b |-> u[2]] :
        x \in SeqsUpTo(Tokens, MaxTextLen),
        c \in {ListOf(<<>>), ListOf(<<Bogus2, Critical2>>), ListOf(<<NonObject>>),
               [t |-> "null", items |-> <<>>]},
        u \in {<<JAbsent, JAbsent>>, <<JInt(5), JAbsent>>, <<JInt(5), JInt(2)>>}}
    \cup {[status |-> e, text |-> <<>>, comments |-> NoComments, tok_a |-> JAbsent,
           tok_b |-> JAbsent] : e \in Statuses \ {"ok"}}

\* The replies the backend gives during a review_files run.
RunReplies ==
    {[status |-> "ok", text |-> x, comments |-> ListOf(l), tok_a |-> a, tok_b |-> JAbsent] :
        x \in {<<"{", "K", "}">>, <<"w">>, <<"A">>, <<"{", "w", "}">>},
        l \in {<<>>, <<Suggestion2, Critical2>>},
        a \in {JAbsent, JInt(3)}}
    \cup {[status |-> "RequestError", text |-> <<>>, comments |-> NoComments,
           tok_a |-> JAbsent, tok_b |-> JAbsent]}

\* File paths (a.m, s/t.p, s/a.m) and ignore patterns (*.p, ?.m).
Paths == {<<"a", ".", "m">>, <<"s", "/", "t", ".", "p">>, <<"s", "/", "a", ".", "m">>}
Patterns == {<<"*", ".", "p">>, <<"?", ".", "m">>}
OnePath == <<"a", ".", "p">>

\* The providers ProviderFactory registers (factory.py _ensure_registered).
RegisteredProviders == {"openai", "ollama"}

(***************************************************************************)
(* Model names.  A model field is None, the empty string or a name; Python *)
(* treats the first two as unset (`if self.model:`).                       *)
(***************************************************************************)
None == "None"
Truthy(x) == x \notin {None, ""}

\* default_model of each provider class (and the `model or "..."` of __init__).
DefaultModel(name) ==
    CASE name = "openai" -> "gpt-4o"
      [] name = "ollama" -> "codellama"
      [] name = "anthropic" -> "claude-sonnet-4-20250514"
      [] name = "groq" -> "llama-3.3-70b-versatile"
      [] name = "gemini" -> "gemini-2.0-flash-exp"

\* ProviderConfig.effective_model: self.model if set, else
\* {"openai": "gpt-4o", "ollama": "codellama"}.get(self.name, "gpt-4o").
EffectiveModel(provider_config) ==
    IF Truthy(provider_config.model) THEN provider_config.model
    ELSE IF provider_config.name = "openai" THEN "gpt-4o"
    ELSE IF provider_config.name = "ollama" THEN "codellama"
    ELSE "gpt-4o"

\* _setup_reviewer: the --provider and --model flags override the loaded config.
SetupConfig(provider_config, cli) ==
    [name |-> IF Truthy(cli.provider) THEN cli.provider ELSE provider_config.name,
     model |-> IF Truthy(cli.model) THEN cli.model ELSE provider_config.model]

\* Values of the model fields and of the --provider flag (click.Choice).
ModelValues == {None, "", "gpt-4o-mini", "llama3"}
CliProviders == {"openai", "ollama", "anthropic", "groq"}

(***************************************************************************)
(* reviewer.py _parse_diff.  A diff is the sequence of its lines           *)
(* (diff.split("\n"): the empty string is the one empty line); a line is a *)
(* sequence of pieces of text, among them the header marker "diff --git"   *)
(* and the separator " b/".  A path is the sequence of pieces after the    *)
(* separator; NullPath is None.                                            *)
(***************************************************************************)
HeaderMark == "diff --git"
BMark == " b/"
NullPath == <<None>>

\* str.lower on the strings of the model.
Lower(str) ==
    CASE str = ".PY" -> ".py"
      [] str = "OpenAI" -> "openai"
      [] str = "OLLAMA" -> "ollama"
      [] str = "Anthropic" -> "anthropic"
      [] str = "Nope" -> "nope"
      [] OTHER -> str

\* line.startswith("diff --git")
StartsWithHeader(line) == Len(line) > 0 /\ line[1] = HeaderMark

\* `if current_file:` is false for None and for the empty string.
PathTruthy(path) == path # NullPath /\ path # <<>>

\* The last part of the split taken even when the separator is missing.
AfterLastB_WholeLine(line) ==
    LET marks == {k \in 1..Len(line) : line[k] = BMark}
    IN  IF marks = {} THEN line
        ELSE SubSeq(line, (CHOOSE k \in marks : \A l \in marks : l <= k) + 1, Len(line))

\* parts = line.split(" b/"); parts[-1] if len(parts) > 1 else None
AfterLastB(line) ==
    LET marks == {k \in 1..Len(line) : line[k] = BMark}
    IN  IF marks = {} THEN NullPath
        ELSE SubSeq(line, (CHOOSE k \in marks : \A l \in marks : l <= k) + 1, Len(line))

\* _detect_language: ext_map.get(Path(path).suffix.lower(), "unknown").
DetectLanguage(path) ==
    LET suffix == IF Len(path) > 1 /\ path[Len(path)] \in {".py", ".PY", ".xyz"}
                  THEN Lower(path[Len(path)]) ELSE ""
    IN  IF suffix = ".py" THEN "python" ELSE "unknown"

\* FileChange(path=current_file, diff="\n".join(current_diff_lines), language=...)
FileChange(current_file, current_diff_lines) ==
    [path |-> current_file, diff |-> current_diff_lines,
     language |-> DetectLanguage(current_file)]

\* "\n".join(lines): the text of the lines with a newline between them.
RECURSIVE JoinLines(_)
JoinLines(lines) ==
    IF lines = <<>> THEN <<>>
    ELSE IF Len(lines) = 1 THEN lines[1]
    ELSE lines[1] \o <<"\n">> \o JoinLines(Tail(lines))

\* The loop that opens a unit with no lines, leaving its header line out.
RECURSIVE ParseDiffLoop_HeaderOutsideUnit(_, _, _, _, _)
ParseDiffLoop_HeaderOutsideUnit(lines, k, units, current_file, current_diff_lines) ==
    IF k > Len(lines)
    THEN IF PathTruthy(current_file)
         THEN Append(units, FileChange(current_file, current_diff_lines)) ELSE units
    ELSE IF StartsWithHeader(lines[k])
    THEN ParseDiffLoop_HeaderOutsideUnit(lines, k + 1,
             IF PathTruthy(current_file)
             THEN Append(units, FileChange(current_file, current_diff_lines)) ELSE units,
             AfterLastB(lines[k]), <<>>)
    ELSE ParseDiffLoop_HeaderOutsideUnit(lines, k + 1, units, current_file,
             IF PathTruthy(current_file) THEN Append(current_diff_lines, lines[k])
             ELSE current_diff_lines)

\* The loop without the flush of the open unit after the last line.
RECURSIVE ParseDiffLoop_NoFinalFlush(_, _, _, _, _)
ParseDiffLoop_NoFinalFlush(lines, k, units, current_file, current_diff_lines) ==
    IF k > Len(lines) THEN units
    ELSE IF StartsWithHeader(lines[k])
    THEN ParseDiffLoop_NoFinalFlush(lines, k + 1,
             IF PathTruthy(current_file)
             THEN Append(units, FileChange(current_file, current_diff_lines)) ELSE units,
             AfterLastB(lines[k]), <<lines[k]>>)
    ELSE ParseDiffLoop_NoFinalFlush(lines, k + 1, units, current_file,
             IF PathTruthy(current_file) THEN Append(current_diff_lines, lines[k])
             ELSE current_diff_lines)

\* for line in diff.split("\n"): ...; then the flush of the open unit.
RECURSIVE ParseDiffLoop(_, _, _, _, _)
ParseDiffLoop(lines, k, units, current_file, current_diff_lines) ==
    IF k > Len(lines)
    THEN IF PathTruthy(current_file)
         THEN Append(units, FileChange(current_file, current_diff_lines)) ELSE units
    ELSE IF StartsWithHeader(lines[k])
    THEN ParseDiffLoop(lines, k + 1,
             IF PathTruthy(current_file)
             THEN Append(units, FileChange(current_file, current_diff_lines)) ELSE units,
             AfterLastB(lines[k]), <<lines[k]>>)
    ELSE ParseDiffLoop(lines, k + 1, units, current_file,
             IF PathTruthy(current_file) THEN Append(current_diff_lines, lines[k])
             ELSE current_diff_lines)

ParseDiff(diff) == ParseDiffLoop(diff, 1, <<>>, NullPath, <<>>)

\* Lines of a diff: headers of f.py and of g, a header with no " b/", one with
\* nothing after it, one with two of them, a "+++ b/g" line, a "+" line and
\* the empty line.
MaxDiffLines == 3
DiffLines ==
    {<<HeaderMark, " a/", "f", ".py", BMark, "f", ".py">>,
     <<HeaderMark, " a/", "g", BMark, "g">>,
     <<HeaderMark, " a/", "g">>,
     <<HeaderMark, " a/", "g", BMark>>,
     <<HeaderMark, " a/", "g", BMark, "f", BMark, "g">>,
     <<"+++", BMark, "g">>,
     <<"+">>,
     <<>>}
Diffs == SeqsUpTo(DiffLines, MaxDiffLines) \ {<<>>}

(***************************************************************************)
(* factory.py ProviderFactory.  _providers is a dict: here the sequence of *)
(* its entries [name, cls] in insertion order, names unique.  Keyword      *)
(* arguments are a set of <<keyword, value>> pairs.                        *)
(***************************************************************************)
DefaultRegistry == <<[name |-> "openai", cls |-> "OpenAIProvider"],
                     [name |-> "ollama", cls |-> "OllamaProvider"]>>

\* The population done on every call, whatever the registry holds.
EnsureRegistered_Always(providers) == DefaultRegistry

\* _ensure_registered: if not cls._providers: cls._providers = {defaults}
EnsureRegistered(providers) == IF providers = <<>> THEN DefaultRegistry ELSE providers

\* list(d.keys()), name in d, d.get(name), d[name] = cls
DictKeys(d) == [k \in 1..Len(d) |-> d[k].name]
DictHas(d, name) == \E k \in 1..Len(d) : d[k].name = name
DictGetClass(d, name) ==
    IF DictHas(d, name) THEN d[CHOOSE k \in 1..Len(d) : d[k].name = name].cls ELSE None
DictSet(d, name, cls) ==
    IF DictHas(d, name)
    THEN [k \in 1..Len(d) |-> IF d[k].name = name THEN [name |-> name, cls |-> cls] ELSE d[k]]
    ELSE Append(d, [name |-> name, cls |-> cls])

\* The keyword parameters of each provider class's __init__.
Parameters(cls) ==
    CASE cls = "OpenAIProvider" -> {"api_key", "model", "base_url"}
      [] cls = "OllamaProvider" -> {"model", "base_url", "timeout"}
      [] cls = "AnthropicProvider" -> {"api_key", "model", "base_url"}
      [] cls = "GroqProvider" -> {"api_key", "model"}
      [] cls = "GeminiProvider" -> {"api_key", "model"}

KeywordsOf(kwargs) == {kv[1] : kv \in kwargs}

\* A factory operation, its arguments (name, kwargs) and its outcome.  kind:
\* "return" or "raise"; exc: the exception raised; cls and
\* options: the class returned or instantiated and the options it was built
\* with; msg_name and listed: the name and the names in the error message.
FactoryOut(op, name, kwargs, kind, exc, cls, options, msg_name, listed) ==
    [op |-> op, name |-> name, kwargs |-> kwargs, kind |-> kind, exc |-> exc, cls |-> cls,
     options |-> options, msg_name |-> msg_name, listed |-> listed]

NoFactoryCall == FactoryOut("none", "", {}, "none", "", None, {}, "", <<>>)

\* create looking the name up as it was given.
FactoryCreate_CaseSensitive(providers, provider_name, kwargs) ==
    LET registry == EnsureRegistered(providers)
    IN  IF ~DictHas(registry, provider_name)
        THEN [providers |-> registry,
              out |-> FactoryOut("create", provider_name, kwargs, "raise", "ValueError", None, {},
                                 provider_name, DictKeys(registry))]
        ELSE LET provider_class == DictGetClass(registry, provider_name)
             IN  [providers |-> registry,
                  out |-> IF KeywordsOf(kwargs) \subseteq Parameters(provider_class)
                          THEN FactoryOut("create", provider_name, kwargs, "return", "",
                                          provider_class, kwargs, "", <<>>)
                          ELSE FactoryOut("create", provider_name, kwargs, "raise", "TypeError",
                                          None, {}, "", <<>>)]

\* ProviderFactory.create(provider_name, **kwargs); provider_class(**kwargs)
\* raises TypeError for a keyword the constructor does not have.
FactoryCreate(providers, provider_name, kwargs) ==
    LET registry == EnsureRegistered(providers)
        lowered == Lower(provider_name)
    IN  IF ~DictHas(registry, lowered)
        THEN [providers |-> registry,
              out |-> FactoryOut("create", provider_name, kwargs, "raise", "ValueError", None, {},
                                 lowered, DictKeys(registry))]
        ELSE LET provider_class == DictGetClass(registry, lowered)
             IN  [providers |-> registry,
                  out |-> IF KeywordsOf(kwargs) \subseteq Parameters(provider_class)
                          THEN FactoryOut("create", provider_name, kwargs, "return", "",
                                          provider_class, kwargs, "", <<>>)
                          ELSE FactoryOut("create", provider_name, kwargs, "raise", "TypeError",
                                          None, {}, "", <<>>)]

\* register storing the class without registering the defaults first.
FactoryRegister_NoDefaults(providers, name, provider_class) ==
    [providers |-> DictSet(providers, Lower(name), provider_class),
     out |-> FactoryOut("register", name, {}, "return", "", None, {}, "", <<>>)]

\* ProviderFactory.register(name, provider_class)
FactoryRegister(providers, name, provider_class) ==
    [providers |-> DictSet(EnsureRegistered(providers), Lower(name), provider_class),
     out |-> FactoryOut("register", name, {}, "return", "", None, {}, "", <<>>)]

\* ProviderFactory.available_providers()
FactoryAvailableProviders(providers) ==
    LET registry == EnsureRegistered(providers)
    IN  [providers |-> registry,
         out |-> FactoryOut("available_providers", "", {}, "return", "", None, {}, "",
                            DictKeys(registry))]

\* ProviderFactory.get_provider_class(name)
FactoryGetProviderClass(providers, name) ==
    LET registry == EnsureRegistered(providers)
    IN  [providers |-> registry,
         out |-> FactoryOut("get_provider_class", name, {}, "return", "",
                            DictGetClass(registry, Lower(name)), {}, "", <<>>)]

\* Names and classes given to register, names looked up, and keyword
\* arguments of create: none, a model, and those CodeReviewer.provider passes.
RegisterNames == {"anthropic", "Anthropic", "OpenAI"}
RegisterClasses == {"AnthropicProvider", "GroqProvider"}
LookupNames == {"openai", "OpenAI", "OLLAMA", "ollama", "anthropic", "Anthropic", "groq", "Nope"}
ReviewerKwargs == {<<"api_key", None>>, <<"model", None>>, <<"base_url", None>>}
CreateKwargs == {{}, {<<"model", "llama3">>}, ReviewerKwargs}

\* The name property of each provider class.
ProviderName(cls) ==
    CASE cls = "OpenAIProvider" -> "openai"
      [] cls = "OllamaProvider" -> "ollama"
      [] cls = "AnthropicProvider" -> "anthropic"
      [] cls = "GroqProvider" -> "groq"
      [] cls = "GeminiProvider" -> "gemini"

\* CodeReviewer.provider: the provider given to the constructor, or else the
\* one ProviderFactory.create builds from config.provider on first use.
\* kind "return" with the provider's name, or "raise" with the exception.
ProviderProperty(self_provider, provider_config_name, providers) ==
    IF self_provider # None
    THEN [kind |-> "return", name |-> self_provider, exc |-> "", providers |-> providers]
    ELSE LET r == FactoryCreate(providers, provider_config_name, ReviewerKwargs)
         IN  IF r.out.kind = "return"
             THEN [kind |-> "return", name |-> ProviderName(r.out.cls), exc |-> "",
                   providers |-> r.providers]
             ELSE [kind |-> "raise", name |-> None, exc |-> r.out.exc,
                   providers |-> r.providers]

\* Provider names a ReviewConfig may carry.
ConfigProviders == {"openai", "ollama", "Nope"}

(***************************************************************************)
(* Connection handles.  Each provider, and GitHubAPI, keeps its handle in  *)
(* _client: 0 is None, n > 0 is the n-th handle constructed for the        *)
(* instance.  An instance is [cls, _model, _client]; made counts the calls *)
(* of the handle's constructor (OpenAI(...), httpx.Client(...), ...).      *)
(***************************************************************************)
MaxHandles == 3

Holders == Providers \cup {"github"}

\* __init__: self._model = model or <default>; self._client = None.
\* (GitHubAPI has no model.)
NewHolder(cls, model) ==
    [cls |-> cls,
     _model |-> IF cls = "github" THEN None
                ELSE IF Truthy(model) THEN model ELSE DefaultModel(cls),
     _client |-> 0]

\* The client property: the instance and the constructor count after one access.
ClientProperty(self, made) ==
    IF self._client = 0
    THEN [self |-> [self EXCEPT !._client = made + 1], made |-> made + 1]
    ELSE [self |-> self, made |-> made]

\* review: model = config.model if config.model else self._model.
ModelSent(config_model, self_model) ==
    IF Truthy(config_model) THEN config_model ELSE self_model

\* GeminiProvider.review: a model name other than the instance's replaces it
\* and drops the handle.
GeminiSelectModel(self, config_model) ==
    LET model_name == ModelSent(config_model, self._model)
    IN IF model_name # self._model
       THEN [self EXCEPT !._model = model_name, !._client = 0]
       ELSE self

\* The outcome of one operation on a holder: the exception raised ("" for
\* none), the handle the operation used or closed (0 for none) and the model
\* name of the request.
ClientOut(op, exc, client, model) ==
    [op |-> op, exc |-> exc, client |-> client, model |-> model]

NoClientCall == ClientOut("none", "", 0, None)

\* What one review call does to the provider instance.
ReviewOnHolder(self, made, config_model) ==
    LET s == IF self.cls = "gemini" THEN GeminiSelectModel(self, config_model) ELSE self
        c == ClientProperty(s, made)
        model == IF self.cls = "gemini" THEN s._model
                 ELSE ModelSent(config_model, self._model)
    IN [self |-> c.self, made |-> c.made,
        out |-> ClientOut("review", "", c.self._client, model)]

\* One GitHubAPI request method (get_pr_info, create_review, ...).
ApiOnHolder(self, made) ==
    LET c == ClientProperty(self, made)
    IN [self |-> c.self, made |-> c.made,
        out |-> ClientOut("request", "", c.self._client, None)]

\* OllamaProvider.validate_config: self.client.get("/api/tags").
ValidateOnHolder(self, made) ==
    LET c == ClientProperty(self, made)
    IN [self |-> c.self, made |-> c.made,
        out |-> ClientOut("validate_config", "", c.self._client, None)]

\* holder.close(): GitHubAPI closes and unsets a handle it has; no provider
\* class defines close, so the attribute lookup fails.
CloseOnHolder(self, made) ==
    IF self.cls = "github"
    THEN [self |-> [self EXCEPT !._client = 0], made |-> made,
          out |-> ClientOut("close", "", self._client, None)]
    ELSE [self |-> self, made |-> made,
          out |-> ClientOut("close", "AttributeError", 0, None)]

\* Values of ReviewConfig.model (a str, "gpt-4o" unless given).
ConfigModels == (ModelValues \ {None}) \cup {"gpt-4o"}

(***************************************************************************)
(* models.py: the properties of ReviewComment and ReviewResult, and the    *)
(* exit code of a CLI review command.  A str is the sequence of its        *)
(* characters; line_end is a JSON value (null for None).                   *)
(***************************************************************************)
MaxFindings == 2

DigitChar(d) ==
    CASE d = 0 -> "0" [] d = 1 -> "1" [] d = 2 -> "2" [] d = 3 -> "3" [] d = 4 -> "4"
      [] d = 5 -> "5" [] d = 6 -> "6" [] d = 7 -> "7" [] d = 8 -> "8" [] d = 9 -> "9"

\* The decimal digits of a natural number.
RECURSIVE Digits(_)
Digits(n) ==
    IF n < 10 THEN <<DigitChar(n)>>
    ELSE Digits(n \div 10) \o <<DigitChar(n % 10)>>

\* str(n) of an int.
Str(n) == IF n < 0 THEN <<"-">> \o Digits(0 - n) ELSE Digits(n)

\* bool(line_end): None and 0 are false.
LineEndTruthy(line_end) == line_end.t = "int" /\ line_end.n # 0

\* ReviewComment.line_range.
LineRange(comment) ==
    IF LineEndTruthy(comment.line_end) /\ comment.line_end.n # comment.line_start
    THEN Str(comment.line_start) \o <<"-">> \o Str(comment.line_end.n)
    ELSE Str(comment.line_start)

\* sum(1 for c in comments if c.severity == severity)
RECURSIVE CountSeverity(_, _)
CountSeverity(comments, severity) ==
    IF comments = <<>> THEN 0
    ELSE (IF Head(comments).severity = severity THEN 1 ELSE 0)
         + CountSeverity(Tail(comments), severity)

CriticalCount(result) == CountSeverity(result.comments, "critical")
WarningCount(result) == CountSeverity(result.comments, "warning")

\* The count with the findings of severity "info" taken as suggestions.
SuggestionCount_WithInfo(result) ==
    CountSeverity(result.comments, "suggestion") + CountSeverity(result.comments, "info")

SuggestionCount(result) == CountSeverity(result.comments, "suggestion")

HasCriticalIssues(result) == CriticalCount(result) > 0

\* Handling that reports the result and always returns.
HandleResult_ReportOnly(result) == [kind |-> "return", code |-> 0]

\* _handle_result: print the result; sys.exit(1) raises SystemExit(1), else
\* the function returns None and click ends the command with code 0.
HandleResult(result) ==
    IF HasCriticalIssues(result) THEN [kind |-> "SystemExit", code |-> 1]
    ELSE [kind |-> "return", code |-> 0]

\* The try block of a review command (investigate, files, staged, diff):
\* `except Exception` handles an error of the review with sys.exit(1) and
\* lets the SystemExit of _handle_result pass.
ReviewCommand(outcome) ==
    IF outcome.kind = "raise" THEN 1
    ELSE HandleResult(outcome.result).code

\* The findings of a result: the severities with each case of the line
\* fields (end unset, zero, equal to the start, different).
LineStarts == {2, 12}
LineEnds == {JNull, JInt(0), JInt(12)}
Findings == [severity : Severity, line_start : LineStarts, line_end : LineEnds]
NoProperties == [op |-> "none", k |-> 0, line_range |-> <<>>, critical_count |-> 0,
                 warning_count |-> 0, suggestion_count |-> 0,
                 has_critical_issues |-> FALSE, exit_code |-> 0]

(***************************************************************************)
(* reviewer.py review_diff and review_file.  Both end in                   *)
(* `return self.review_files(...)`: the outcome of an entry point is the   *)
(* list it hands to review_files, or the error raised before the call.     *)
(* A content is a JSON value: null for None, else the str.                 *)
(***************************************************************************)
\* FileChange(path=path, content=content, language=self._detect_language(path))
FileChangeOfContent(path, content) ==
    [path |-> path, content |-> content, language |-> DetectLanguage(path)]

DelegatesTo(files, read) ==
    [kind |-> "review_files", exc |-> "", files |-> files, read |-> read]

EntryRaises(e, read) == [kind |-> "raise", exc |-> e, files |-> <<>>, read |-> read]

NoEntryCall == [kind |-> "none", exc |-> "", files |-> <<>>, read |-> FALSE]

\* review_diff: files = self._parse_diff(diff); return self.review_files(files)
ReviewDiff(diff) == DelegatesTo(ParseDiff(diff), FALSE)

\* review_file with `if not content:` as its test for reading the file.
ReviewFile_ReadWhenEmpty(path, content, disk) ==
    IF content.t = "null" \/ content.s = ""
    THEN IF disk.t = "absent" THEN EntryRaises("FileNotFoundError", TRUE)
         ELSE DelegatesTo(<<FileChangeOfContent(path, disk)>>, TRUE)
    ELSE DelegatesTo(<<FileChangeOfContent(path, content)>>, FALSE)

\* review_file: `if content is None: content = Path(path).read_text()`; disk
\* is the text of the file at the path, absent when there is no such file.
ReviewFile(path, content, disk) ==
    IF content.t = "null"
    THEN IF disk.t = "absent" THEN EntryRaises("FileNotFoundError", TRUE)
         ELSE DelegatesTo(<<FileChangeOfContent(path, disk)>>, TRUE)
    ELSE DelegatesTo(<<FileChangeOfContent(path, content)>>, FALSE)

\* Arguments of review_file and the state of the disk.
EntryPaths == {<<"f", ".py">>, <<"F", ".PY">>, <<"g">>}
Contents == {JNull, JStr(""), JStr("x = 1")}
DiskTexts == {JAbsent, JStr(""), JStr("y = 2")}
NoEntryArgs == [op |-> "none", diff |-> <<<<>>>>, path |-> <<>>, content |-> JNull,
                disk |-> JAbsent]

(***************************************************************************)
(* The model names of a review_files run: the one each request carries and *)
(* the one the result records.  A ReviewConfig is [provider : [name,       *)
(* model], model]; a provider instance is as for the connection handles.   *)
(***************************************************************************)
NoInstance == [cls |-> None, _model |-> None, _client |-> 0]

\* CodeReviewer.provider with the instance it returns: the one given to the
\* constructor, or the one the factory builds with model=provider_config.model.
ProviderInstance(self_provider, provider_config) ==
    IF self_provider # NoInstance
    THEN [kind |-> "return", exc |-> "", instance |-> self_provider]
    ELSE LET p == ProviderProperty(None, provider_config.name, <<>>)
         IN  IF p.kind = "return"
             THEN [kind |-> "return", exc |-> "",
                   instance |-> NewHolder(p.name, provider_config.model)]
             ELSE [kind |-> "raise", exc |-> p.exc, instance |-> NoInstance]

\* ReviewResult(..., model_used=self.config.provider.effective_model, ...)
ModelUsed(review_config) == EffectiveModel(review_config.provider)

NoProvenance == [kind |-> "none", exc |-> "", model_used |-> None]

(***************************************************************************)
(* State.  config, provider, files: the CodeReviewer and the argument of   *)
(* review_files; i, all_comments, total_tokens, files_reviewed: the locals *)
(* of review_files (i is the position of the for loop); provider is the    *)
(* reviewer's _provider: None until created, else the provider's name;     *)
(* config.provider is the name in the ProviderConfig; pc: "loop",          *)
(* "done" (returned result) or "raised" (error propagated).                *)
(* calls and returned are history: the files provider.review was invoked   *)
(* for and what each call returned.                                        *)
(* rv_*: one provider.review call (provider, reply of the backend, outcome *)
(* and the requests issued); pr_*: one _parse_response call.               *)
(* em_*: one model resolution: the loaded ProviderConfig, the command-line *)
(* flags, the position ("load", "setup", "resolved") and the model name.   *)
(* pd_*: one _parse_diff call: the diff, whether it returned, the units.   *)
(* fa_providers: ProviderFactory._providers; fa_out: the outcome of the    *)
(* last factory operation; fa_log: the class each lower-cased name was     *)
(* last given to register with (history).                                  *)
(* rs_outcome: the outcome of a review run (a ReviewResult or an error);   *)
(* rs_out: the properties last read from it and the exit code.             *)
(* en_call: the entry point called with its arguments and the file on     *)
(* disk; en_out: its outcome.                                              *)
(* pv_config, pv_provider: the ReviewConfig and the provider instance of a *)
(* run; pv_sent: the model name of each request so far; pv_pc, pv_out: the *)
(* position of the run and its outcome.                                    *)
(* cl_self: one holder of a connection handle; cl_made: the handles        *)
(* constructed for it; cl_closed: the handles whose close() was called;    *)
(* cl_out: the outcome of the last operation on it.                        *)
(***************************************************************************)
VARIABLES config, provider, files, i, all_comments, total_tokens, files_reviewed,
          pc, result, error, calls, returned,
          rv_provider, rv_reply, rv_out, rv_requests, pr_response, pr_out,
          em_config, em_cli, em_pc, em_out, pd_diff, pd_done, pd_out,
          fa_providers, fa_out, fa_log, cl_self, cl_made, cl_closed, cl_out,
          rs_outcome, rs_out, en_call, en_out,
          pv_config, pv_provider, pv_sent, pv_pc, pv_out

run_vars == <<config, provider, files, i, all_comments, total_tokens, files_reviewed,
              pc, result, error, calls, returned>>
rv_vars == <<rv_provider, rv_reply, rv_out, rv_requests>>
pr_vars == <<pr_response, pr_out>>
em_vars == <<em_config, em_cli, em_pc, em_out>>
pd_vars == <<pd_diff, pd_done, pd_out>>
fa_vars == <<fa_providers, fa_out, fa_log>>
cl_vars == <<cl_self, cl_made, cl_closed, cl_out>>
rs_vars == <<rs_outcome, rs_out>>
en_vars == <<en_call, en_out>>
pv_vars == <<pv_config, pv_provider, pv_sent, pv_pc, pv_out>>
more_vars == <<em_vars, pd_vars, fa_vars, cl_vars, rs_vars, en_vars, pv_vars>>
vars == <<run_vars, rv_vars, pr_vars, more_vars>>

NoReply == [status |-> "ok", text |-> <<>>, comments |-> NoComments,
            tok_a |-> JAbsent, tok_b |-> JAbsent]

RunIdle ==
    /\ config = [max_comments |-> 0, ignore_files |-> <<>>, provider |-> "openai"]
    /\ provider = "openai"
    /\ files = <<>>
    /\ i = 1 /\ all_comments = <<>> /\ total_tokens = 0 /\ files_reviewed = 0
    /\ pc = "idle" /\ result = NoResult /\ error = "" /\ calls = <<>> /\ returned = <<>>

ReviewIdle ==
    rv_provider = "openai" /\ rv_reply = NoReply /\ rv_out = NotCalled /\ rv_requests = <<>>

ParseIdle == pr_response = [kind |-> "dict", comments |-> NoComments] /\ pr_out = NotCalled

ModelIdle ==
    /\ em_config = [name |-> "openai", model |-> None]
    /\ em_cli = [provider |-> None, model |-> None]
    /\ em_pc = "idle" /\ em_out = None

DiffIdle == pd_diff = <<<<>>>> /\ pd_done = FALSE /\ pd_out = <<>>

NoLog == [n \in {Lower(n) : n \in RegisterNames} |-> None]

FactoryIdle == fa_providers = <<>> /\ fa_out = NoFactoryCall /\ fa_log = NoLog

ClientIdle ==
    /\ cl_self = NewHolder("openai", None) /\ cl_made = 0 /\ cl_closed = {}
    /\ cl_out = NoClientCall

ResultIdle ==
    /\ rs_outcome = [kind |-> "return", result |-> [comments |-> <<>>]]
    /\ rs_out = NoProperties

EntryIdle == en_call = NoEntryArgs /\ en_out = NoEntryCall

ProvenanceIdle ==
    /\ pv_config = [provider |-> [name |-> "openai", model |-> None], model |-> "gpt-4o"]
    /\ pv_provider = NoInstance /\ pv_sent = <<>> /\ pv_pc = "idle"
    /\ pv_out = NoProvenance

\* The groups outside review_files, review and _parse_response, all but
\* group g, are not running / are left as they are.
ExtraIdle(g) ==
    /\ IF g = "em" THEN TRUE ELSE ModelIdle
    /\ IF g = "pd" THEN TRUE ELSE DiffIdle
    /\ IF g = "fa" THEN TRUE ELSE FactoryIdle
    /\ IF g = "cl" THEN TRUE ELSE ClientIdle
    /\ IF g = "rs" THEN TRUE ELSE ResultIdle
    /\ IF g = "en" THEN TRUE ELSE EntryIdle
    /\ IF g = "pv" THEN TRUE ELSE ProvenanceIdle

ExtraUnchanged(g) ==
    /\ IF g = "em" THEN TRUE ELSE UNCHANGED em_vars
    /\ IF g = "pd" THEN TRUE ELSE UNCHANGED pd_vars
    /\ IF g = "fa" THEN TRUE ELSE UNCHANGED fa_vars
    /\ IF g = "cl" THEN TRUE ELSE UNCHANGED cl_vars
    /\ IF g = "rs" THEN TRUE ELSE UNCHANGED rs_vars
    /\ IF g = "en" THEN TRUE ELSE UNCHANGED en_vars
    /\ IF g = "pv" THEN TRUE ELSE UNCHANGED pv_vars

MoreIdle == ExtraIdle("")

(***************************************************************************)
(* review_files(files) of a CodeReviewer(config, provider).                *)
(***************************************************************************)
Init ==
    /\ config \in [max_comments : (0 - 1)..MaxCommentsCfg,
                   ignore_files : SeqsUpTo(Patterns, MaxPatterns),
                   provider : ConfigProviders]
    /\ \/ provider \in RegisteredProviders /\ config.provider = "openai"
       \/ provider = None
    /\ files \in SeqsUpTo(Paths, MaxFiles)
    /\ i = 1 /\ all_comments = <<>> /\ total_tokens = 0 /\ files_reviewed = 0
    /\ pc = "loop" /\ result = NoResult /\ error = "" /\ calls = <<>> /\ returned = <<>>
    /\ ReviewIdle /\ ParseIdle /\ MoreIdle

\* if self._should_ignore_file(file.path): continue
SkipIgnoredFile ==
    /\ pc = "loop" /\ i <= Len(files)
    /\ ShouldIgnoreFile(files[i], config.ignore_files)
    /\ i' = i + 1
    /\ UNCHANGED <<config, provider, files, all_comments, total_tokens, files_reviewed,
                   pc, result, error, calls, returned, rv_vars, pr_vars, more_vars>>

\* result = self._review_single_file(file), then the three accumulations.
ReviewFileReturns ==
    /\ pc = "loop" /\ i <= Len(files)
    /\ ~ShouldIgnoreFile(files[i], config.ignore_files)
    /\ LET p == ProviderProperty(provider, config.provider, fa_providers)
       IN  /\ p.kind = "return"
           /\ provider' = p.name
           /\ fa_providers' = p.providers
           /\ \E reply \in RunReplies :
                  LET res == Review(p.name, reply, files[i])
                      acc == Accumulate([all_comments |-> all_comments,
                                         total_tokens |-> total_tokens,
                                         files_reviewed |-> files_reviewed], res)
                  IN  /\ res.kind = "return"
                      /\ all_comments' = acc.all_comments
                      /\ total_tokens' = acc.total_tokens
                      /\ files_reviewed' = acc.files_reviewed
                      /\ returned' = Append(returned, res)
    /\ calls' = Append(calls, i)
    /\ i' = i + 1
    /\ UNCHANGED <<config, files, pc, result, error, rv_vars, pr_vars, fa_out, fa_log>>
    /\ ExtraUnchanged("fa")

\* review_files catching the error of a review and going on to the next file.
ReviewFileRaises_CatchAndContinue ==
    /\ pc = "loop" /\ i <= Len(files)
    /\ ~ShouldIgnoreFile(files[i], config.ignore_files)
    /\ LET p == ProviderProperty(provider, config.provider, fa_providers)
       IN  /\ p.kind = "return"
           /\ provider' = p.name
           /\ fa_providers' = p.providers
           /\ \E reply \in RunReplies :
                  LET res == Review(p.name, reply, files[i])
                  IN  /\ res.kind = "raise"
                      /\ error' = res.exc
    /\ calls' = Append(calls, i)
    /\ i' = i + 1
    /\ UNCHANGED <<config, files, pc, all_comments, total_tokens, files_reviewed,
                   result, returned, rv_vars, pr_vars, fa_out, fa_log>>
    /\ ExtraUnchanged("fa")

\* provider.review raises: nothing in review_files catches it.
ReviewFileRaises ==
    /\ pc = "loop" /\ i <= Len(files)
    /\ ~ShouldIgnoreFile(files[i], config.ignore_files)
    /\ LET p == ProviderProperty(provider, config.provider, fa_providers)
       IN  /\ p.kind = "return"
           /\ provider' = p.name
           /\ fa_providers' = p.providers
           /\ \E reply \in RunReplies :
                  LET res == Review(p.name, reply, files[i])
                  IN  /\ res.kind = "raise"
                      /\ error' = res.exc
    /\ calls' = Append(calls, i)
    /\ pc' = "raised"
    /\ UNCHANGED <<config, files, i, all_comments, total_tokens, files_reviewed,
                   result, returned, rv_vars, pr_vars, fa_out, fa_log>>
    /\ ExtraUnchanged("fa")

\* self.provider raises on first use (ProviderFactory.create): nothing in
\* review_files catches it, and provider.review is not reached.
CreateProviderRaises ==
    /\ pc = "loop" /\ i <= Len(files)
    /\ ~ShouldIgnoreFile(files[i], config.ignore_files)
    /\ LET p == ProviderProperty(provider, config.provider, fa_providers)
       IN  /\ p.kind = "raise"
           /\ error' = p.exc
           /\ fa_providers' = p.providers
    /\ pc' = "raised"
    /\ UNCHANGED <<config, provider, files, i, all_comments, total_tokens, files_reviewed,
                   result, calls, returned, rv_vars, pr_vars, fa_out, fa_log>>
    /\ ExtraUnchanged("fa")

\* return ReviewResult(...)
ReturnResult ==
    /\ pc = "loop" /\ i > Len(files)
    /\ result' = BuildResult([all_comments |-> all_comments, total_tokens |-> total_tokens,
                              files_reviewed |-> files_reviewed], config)
    /\ pc' = "done"
    /\ UNCHANGED <<config, provider, files, i, all_comments, total_tokens, files_reviewed,
                   error, calls, returned, rv_vars, pr_vars, more_vars>>

Next ==
    SkipIgnoredFile \/ ReviewFileReturns \/ ReviewFileRaises \/ CreateProviderRaises
        \/ ReturnResult

Spec == Init /\ [][Next]_vars

(***************************************************************************)
(* One call provider.review(file, config, system_prompt, user_prompt) of   *)
(* each provider class on each reply.                                      *)
(***************************************************************************)
InitReview ==
    /\ rv_provider \in Providers
    /\ rv_reply \in ReviewReplies
    /\ rv_out = NotCalled /\ rv_requests = <<>>
    /\ RunIdle /\ ParseIdle /\ MoreIdle

CallReview ==
    /\ rv_out.kind = "none"
    /\ rv_requests' = BackendRequests(rv_provider, rv_reply)
    /\ rv_out' = Review(rv_provider, rv_reply, OnePath)
    /\ UNCHANGED <<rv_provider, rv_reply, run_vars, pr_vars, more_vars>>

NextReview == CallReview

SpecReview == InitReview /\ [][NextReview]_vars

(***************************************************************************)
(* One call _parse_response(response, file_path) on each parsed value.     *)
(***************************************************************************)
InitParse ==
    /\ pr_response \in Responses(MaxItems)
    /\ pr_out = NotCalled
    /\ RunIdle /\ ReviewIdle /\ MoreIdle

CallParseResponse ==
    /\ pr_out.kind = "none"
    /\ pr_out' = ParseResponse(pr_response, OnePath)
    /\ UNCHANGED <<pr_response, run_vars, rv_vars, more_vars>>

NextParse == CallParseResponse

SpecParse == InitParse /\ [][NextParse]_vars

(***************************************************************************)
(* Model resolution: load_config, then _setup_reviewer applies the flags,  *)
(* then ProviderConfig.effective_model names the model of the run (the     *)
(* banner of _setup_reviewer and model_used of review_files).              *)
(***************************************************************************)
InitModel ==
    /\ em_config \in [name : Providers, model : ModelValues]
    /\ em_cli \in [provider : {None} \cup CliProviders, model : ModelValues]
    /\ em_pc = "load" /\ em_out = None
    /\ RunIdle /\ ReviewIdle /\ ParseIdle /\ ExtraIdle("em")

SetupReviewer ==
    /\ em_pc = "load"
    /\ em_config' = SetupConfig(em_config, em_cli)
    /\ em_pc' = "setup"
    /\ UNCHANGED <<em_cli, em_out, run_vars, rv_vars, pr_vars>> /\ ExtraUnchanged("em")

ResolveEffectiveModel ==
    /\ em_pc = "setup"
    /\ em_out' = EffectiveModel(em_config)
    /\ em_pc' = "resolved"
    /\ UNCHANGED <<em_config, em_cli, run_vars, rv_vars, pr_vars>> /\ ExtraUnchanged("em")

NextModel == SetupReviewer \/ ResolveEffectiveModel

SpecModel == InitModel /\ [][NextModel]_vars

(***************************************************************************)
(* One call _parse_diff(diff) on each diff.                                *)
(***************************************************************************)
InitDiff ==
    /\ pd_diff \in Diffs
    /\ pd_done = FALSE /\ pd_out = <<>>
    /\ RunIdle /\ ReviewIdle /\ ParseIdle /\ ExtraIdle("pd")

CallParseDiff ==
    /\ ~pd_done
    /\ pd_out' = ParseDiff(pd_diff)
    /\ pd_done' = TRUE
    /\ UNCHANGED <<pd_diff, run_vars, rv_vars, pr_vars>> /\ ExtraUnchanged("pd")

NextDiff == CallParseDiff

SpecDiff == InitDiff /\ [][NextDiff]_vars

(***************************************************************************)
(* The provider registry of a process: any sequence of create, register,   *)
(* available_providers and get_provider_class calls, from the empty class  *)
(* attribute _providers.                                                   *)
(***************************************************************************)
InitFactory ==
    /\ fa_providers = <<>> /\ fa_out = NoFactoryCall /\ fa_log = NoLog
    /\ RunIdle /\ ReviewIdle /\ ParseIdle /\ ExtraIdle("fa")

Create ==
    \E provider_name \in LookupNames, kwargs \in CreateKwargs :
        LET r == FactoryCreate(fa_providers, provider_name, kwargs)
        IN  /\ fa_providers' = r.providers
            /\ fa_out' = r.out
            /\ UNCHANGED <<fa_log, run_vars, rv_vars, pr_vars>> /\ ExtraUnchanged("fa")

Register ==
    \E name \in RegisterNames, provider_class \in RegisterClasses :
        LET r == FactoryRegister(fa_providers, name, provider_class)
        IN  /\ fa_providers' = r.providers
            /\ fa_out' = r.out
            /\ fa_log' = [fa_log EXCEPT ![Lower(name)] = provider_class]
            /\ UNCHANGED <<run_vars, rv_vars, pr_vars>> /\ ExtraUnchanged("fa")

AvailableProviders ==
    LET r == FactoryAvailableProviders(fa_providers)
    IN  /\ fa_providers' = r.providers
        /\ fa_out' = r.out
        /\ UNCHANGED <<fa_log, run_vars, rv_vars, pr_vars>> /\ ExtraUnchanged("fa")

GetProviderClass ==
    \E name \in LookupNames :
        LET r == FactoryGetProviderClass(fa_providers, name)
        IN  /\ fa_providers' = r.providers
            /\ fa_out' = r.out
            /\ UNCHANGED <<fa_log, run_vars, rv_vars, pr_vars>> /\ ExtraUnchanged("fa")

NextFactory == Create \/ Register \/ AvailableProviders \/ GetProviderClass

SpecFactory == InitFactory /\ [][NextFactory]_vars

(***************************************************************************)
(* One holder of a connection handle and the operations called on it.      *)
(***************************************************************************)
InitClient ==
    /\ cl_self \in {NewHolder(cls, model) : cls \in Holders, model \in ModelValues}
    /\ cl_made = 0
    /\ cl_closed = {}
    /\ cl_out = NoClientCall
    /\ RunIdle /\ ReviewIdle /\ ParseIdle /\ ExtraIdle("cl")

HolderStep(r) ==
    /\ r.made <= MaxHandles
    /\ cl_self' = r.self
    /\ cl_made' = r.made
    /\ cl_out' = r.out
    /\ cl_closed' = IF r.out.op = "close" THEN cl_closed \cup ({r.out.client} \ {0})
                    ELSE cl_closed
    /\ UNCHANGED <<run_vars, rv_vars, pr_vars>> /\ ExtraUnchanged("cl")

ReviewCall ==
    /\ cl_self.cls \in Providers
    /\ \E config_model \in ConfigModels :
           HolderStep(ReviewOnHolder(cl_self, cl_made, config_model))

ApiCall ==
    /\ cl_self.cls = "github"
    /\ HolderStep(ApiOnHolder(cl_self, cl_made))

ValidateConfigCall ==
    /\ cl_self.cls = "ollama"
    /\ HolderStep(ValidateOnHolder(cl_self, cl_made))

CloseCall ==
    /\ cl_self.cls \in Holders
    /\ HolderStep(CloseOnHolder(cl_self, cl_made))

NextClient == ReviewCall \/ ApiCall \/ ValidateConfigCall \/ CloseCall

SpecClient == InitClient /\ [][NextClient]_vars

(***************************************************************************)
(* The outcome of a review run, the properties read from its ReviewResult  *)
(* and the exit of the CLI command that ran it.                            *)
(***************************************************************************)
InitResult ==
    /\ rs_outcome \in [kind : {"return", "raise"},
                       result : [comments : SeqsUpTo(Findings, MaxFindings)]]
    /\ rs_outcome.kind = "raise" => rs_outcome.result.comments = <<>>
    /\ rs_out = NoProperties
    /\ RunIdle /\ ReviewIdle /\ ParseIdle /\ ExtraIdle("rs")

ReadLineRange ==
    /\ rs_outcome.kind = "return"
    /\ \E k \in 1..Len(rs_outcome.result.comments) :
           rs_out' = [NoProperties EXCEPT !.op = "line_range", !.k = k,
                         !.line_range = LineRange(rs_outcome.result.comments[k])]
    /\ UNCHANGED <<rs_outcome, run_vars, rv_vars, pr_vars>> /\ ExtraUnchanged("rs")

ReadCounts ==
    /\ rs_outcome.kind = "return"
    /\ rs_out' = [NoProperties EXCEPT !.op = "counts",
                      !.critical_count = CriticalCount(rs_outcome.result),
                      !.warning_count = WarningCount(rs_outcome.result),
                      !.suggestion_count = SuggestionCount(rs_outcome.result),
                      !.has_critical_issues = HasCriticalIssues(rs_outcome.result)]
    /\ UNCHANGED <<rs_outcome, run_vars, rv_vars, pr_vars>> /\ ExtraUnchanged("rs")

ExitCommand ==
    /\ rs_out' = [NoProperties EXCEPT !.op = "exit",
                      !.exit_code = ReviewCommand(rs_outcome)]
    /\ UNCHANGED <<rs_outcome, run_vars, rv_vars, pr_vars>> /\ ExtraUnchanged("rs")

NextResult == ReadLineRange \/ ReadCounts \/ ExitCommand

SpecResult == InitResult /\ [][NextResult]_vars

(***************************************************************************)
(* One call of review_diff or review_file.                                 *)
(***************************************************************************)
InitEntry ==
    /\ \/ en_call \in [op : {"review_diff"}, diff : Diffs, path : {<<>>},
                        content : {JNull}, disk : {JAbsent}]
       \/ en_call \in [op : {"review_file"}, diff : {<<<<>>>>}, path : EntryPaths,
                        content : Contents, disk : DiskTexts]
    /\ en_out = NoEntryCall
    /\ RunIdle /\ ReviewIdle /\ ParseIdle /\ ExtraIdle("en")

CallReviewDiff ==
    /\ en_call.op = "review_diff" /\ en_out = NoEntryCall
    /\ en_out' = ReviewDiff(en_call.diff)
    /\ UNCHANGED <<en_call, run_vars, rv_vars, pr_vars>> /\ ExtraUnchanged("en")

CallReviewFile ==
    /\ en_call.op = "review_file" /\ en_out = NoEntryCall
    /\ en_out' = ReviewFile(en_call.path, en_call.content, en_call.disk)
    /\ UNCHANGED <<en_call, run_vars, rv_vars, pr_vars>> /\ ExtraUnchanged("en")

NextEntry == CallReviewDiff \/ CallReviewFile

SpecEntry == InitEntry /\ [][NextEntry]_vars

(***************************************************************************)
(* The model names of one review_files run of a CodeReviewer(config,       *)
(* provider): each file that is not ignored is one request.                *)
(***************************************************************************)
InitProvenance ==
    /\ pv_config \in [provider : [name : ConfigProviders, model : ModelValues],
                      model : ConfigModels]
    /\ pv_provider \in {NoInstance} \cup {NewHolder(cls, None) : cls \in Providers}
    /\ pv_sent = <<>> /\ pv_pc = "loop" /\ pv_out = NoProvenance
    /\ RunIdle /\ ReviewIdle /\ ParseIdle /\ ExtraIdle("pv")

\* _review_single_file of the next file: self.provider.review(file, self.config, ...)
SendRequest ==
    /\ pv_pc = "loop" /\ Len(pv_sent) < MaxFiles
    /\ LET p == ProviderInstance(pv_provider, pv_config.provider)
       IN  /\ p.kind = "return"
           /\ LET r == ReviewOnHolder(p.instance, 0, pv_config.model)
              IN  /\ pv_provider' = r.self
                  /\ pv_sent' = Append(pv_sent, r.out.model)
    /\ UNCHANGED <<pv_config, pv_pc, pv_out, run_vars, rv_vars, pr_vars>>
    /\ ExtraUnchanged("pv")

\* The provider cannot be built: the error leaves review_files.
ProviderRaises ==
    /\ pv_pc = "loop" /\ Len(pv_sent) < MaxFiles
    /\ LET p == ProviderInstance(pv_provider, pv_config.provider)
       IN  /\ p.kind = "raise"
           /\ pv_out' = [kind |-> "raise", exc |-> p.exc, model_used |-> None]
    /\ pv_pc' = "done"
    /\ UNCHANGED <<pv_config, pv_provider, pv_sent, run_vars, rv_vars, pr_vars>>
    /\ ExtraUnchanged("pv")

\* return ReviewResult(..., model_used=self.config.provider.effective_model, ...)
ReturnModelUsed ==
    /\ pv_pc = "loop"
    /\ pv_out' = [kind |-> "return", exc |-> "", model_used |-> ModelUsed(pv_config)]
    /\ pv_pc' = "done"
    /\ UNCHANGED <<pv_config, pv_provider, pv_sent, run_vars, rv_vars, pr_vars>>
    /\ ExtraUnchanged("pv")

NextProvenance == SendRequest \/ ProviderRaises \/ ReturnModelUsed

SpecProvenance == InitProvenance /\ [][NextProvenance]_vars

(***************************************************************************)
(* Claims about review_files (specification Spec).                         *)
(***************************************************************************)
\* The path matches at least one of the configured ignore patterns.
MatchesSomePattern(path) ==
    \E k \in 1..Len(config.ignore_files) : Fnmatch(path, config.ignore_files[k])

\* The positions 1..n of the input files that match no pattern, in input order.
RECURSIVE KeptUpTo(_)
KeptUpTo(n) ==
    IF n = 0 THEN <<>>
    ELSE KeptUpTo(n - 1) \o (IF MatchesSomePattern(files[n]) THEN <<>> ELSE <<n>>)

IsPrefix(a, b) == Len(a) <= Len(b) /\ \A k \in 1..Len(a) : a[k] = b[k]

\* The findings of the calls, concatenated in call order.
RECURSIVE Concatenated(_)
Concatenated(rs) ==
    IF rs = <<>> THEN <<>> ELSE Head(rs).comments \o Concatenated(Tail(rs))

RECURSIVE SumTokens(_)
SumTokens(rs) == IF rs = <<>> THEN 0 ELSE Head(rs).tokens + SumTokens(Tail(rs))

\* C1: with max_comments = N >= 0 the comments of the returned result are the
\* first N findings (all when fewer exist) of the per-file findings concatenated
\* in file-processing order, each file's findings in the order the provider
\* returned them; nothing is reordered before the truncation.
C1_FrontTruncation ==
    (pc = "done" /\ config.max_comments >= 0) =>
        LET whole == Concatenated(returned)
            n == config.max_comments
        IN  /\ Len(result.comments) = IF n < Len(whole) THEN n ELSE Len(whole)
            /\ \A k \in 1..Len(result.comments) : result.comments[k] = whole[k]
            /\ \A k \in 1..Len(calls) :
                  /\ k > 1 => calls[k - 1] < calls[k]
                  /\ \A c \in 1..Len(returned[k].comments) :
                        returned[k].comments[c].file_path = files[calls[k]]

\* A run where truncation to one finding keeps a suggestion and drops a later critical.
C1_Witness ==
    /\ pc = "done" /\ config.max_comments = 1
    /\ Len(calls) = 2 /\ Len(Concatenated(returned)) = 4
    /\ result.comments = <<Concatenated(returned)[1]>>
    /\ result.comments[1].severity = "suggestion"
    /\ Concatenated(returned)[2].severity = "critical"

\* C2: provider.review is invoked once for each input file whose path matches no
\* ignore pattern, in input order, and never for a file whose path, as given,
\* matches one: at every moment the calls made are a prefix of the kept files, and
\* a run that returns has made all of them.
C2_CallsAreKeptFiles ==
    /\ IsPrefix(calls, KeptUpTo(Len(files)))
    /\ pc = "loop" => calls = KeptUpTo(i - 1)
    /\ pc = "done" => calls = KeptUpTo(Len(files))

\* A finished run that skipped s/t.p because of its second pattern *.p only, and
\* reviewed s/a.m although its first pattern ?.m matches the last component a.m.
C2_Witness ==
    /\ pc = "done" /\ calls = <<2>>
    /\ files = <<<<"s", "/", "t", ".", "p">>, <<"s", "/", "a", ".", "m">>>>
    /\ config.ignore_files = <<<<"?", ".", "m">>, <<"*", ".", "p">>>>

\* C3: files_reviewed of the result is the number of input files that were not
\* ignored, whatever the findings returned or dropped by the truncation.
C3_FilesReviewedCountsKept ==
    pc = "done" =>
        result.files_reviewed =
            Cardinality({k \in 1..Len(files) : ~MatchesSomePattern(files[k])})

\* One file ignored, one reviewed with two findings of which one is dropped.
C3_Witness ==
    /\ pc = "done" /\ Len(files) = 2 /\ result.files_reviewed = 1
    /\ Len(all_comments) = 2 /\ Len(result.comments) = 1

\* C4: tokens_used of the result is the sum of the token counts provider.review
\* returned for the processed files, whatever their findings and the truncation.
C4_TokensAreSummed ==
    pc = "done" => result.tokens_used = SumTokens(returned)

\* Two files with three tokens each, the first with no finding, and a dropped finding.
C4_Witness ==
    /\ pc = "done" /\ Len(returned) = 2
    /\ returned[1].tokens = 3 /\ returned[1].comments = <<>>
    /\ returned[2].tokens = 3 /\ Len(returned[2].comments) = 2
    /\ result.tokens_used = 6 /\ Len(result.comments) < 2

(***************************************************************************)
(* Claims about provider.review (specification SpecReview).                *)
(***************************************************************************)
\* The reply text is the envelope {"comments": [objects...]}.
IsEnvelope(reply) ==
    /\ reply.text = <<"{", "K", "}">>
    /\ reply.comments.t = "list"
    /\ \A k \in 1..Len(reply.comments.items) : reply.comments.items[k].kind = "object"

\* The token count the backend reported with a reply, 0 when it reported none.
ReportedTokens(name, reply) ==
    IF name \in {"openai", "groq"}
    THEN (IF reply.tok_a.t = "int" THEN reply.tok_a.n ELSE 0)
    ELSE (IF reply.tok_a.t = "int" THEN reply.tok_a.n ELSE 0)
         + (IF reply.tok_b.t = "int" THEN reply.tok_b.n ELSE 0)

\* C5: for every provider, when the backend call succeeds but the reply text is
\* not valid JSON or is valid JSON that is not the envelope, review returns (an
\* empty list of findings, or only well-formed findings) and never raises.
C5_MalformedReplyNeverRaises ==
    (rv_out.kind # "none" /\ rv_reply.status = "ok" /\ ~IsEnvelope(rv_reply)) =>
        /\ rv_out.kind = "return"
        /\ \A k \in 1..Len(rv_out.comments) : rv_out.comments[k].severity \in Severity

\* C6: when the reply cannot be parsed as the envelope, review returns the token
\* count the backend reported for the call (zero only when it reported none); for
\* Ollama that is eval_count + prompt_eval_count, braces in the text or not.
C6_TokensOfUnparseableReply ==
    (rv_out.kind = "return" /\ rv_reply.status = "ok" /\ ~IsEnvelope(rv_reply)) =>
        rv_out.tokens = ReportedTokens(rv_provider, rv_reply)

(***************************************************************************)
(* Claims about _parse_response (specification SpecParse).                 *)
(***************************************************************************)
\* The call was made on a dict whose "comments" is a list of objects.
ParsedObjects ==
    /\ pr_out.kind # "none"
    /\ pr_response.kind = "dict" /\ pr_response.comments.t = "list"
    /\ \A k \in 1..Len(pr_response.comments.items) :
          pr_response.comments.items[k].kind = "object"

\* A comment object with every field present and of its type, the severity recognised.
WellFormed(it) ==
    /\ it.kind = "object"
    /\ it.line_start.t = "int"
    /\ it.line_end.t \in {"absent", "int"}
    /\ it.severity.t = "str" /\ it.severity.s \in Severity
    /\ it.category.t = "str"
    /\ it.message.t = "str"

UnknownSeverity(it) ==
    it.kind = "object" /\ it.severity.t = "str" /\ it.severity.s \notin Severity

\* The finding that holds the fields of a well-formed comment object as they are.
Direct(it) ==
    [file_path |-> OnePath, line_start |-> it.line_start.n,
     line_end |-> IF it.line_end.t = "int" THEN it.line_end ELSE JNull,
     severity |-> it.severity.s, category |-> it.category.s, message |-> it.message.s]

RECURSIVE DirectAll(_)
DirectAll(its) == IF its = <<>> THEN <<>> ELSE <<Direct(Head(its))>> \o DirectAll(Tail(its))

RemoveAt(seq, k) == SubSeq(seq, 1, k - 1) \o SubSeq(seq, k + 1, Len(seq))

WithItems(its) == [kind |-> "dict", comments |-> [t |-> "list", items |-> its]]

\* C7: in a valid envelope, a comment object whose severity string is not one of
\* critical, warning, suggestion, info is the only thing dropped: the findings
\* are those of the response without that object, and when the other objects
\* are well-formed each of them is a finding, in the original order.
C7_OnlyUnknownSeverityDropped ==
    ParsedObjects =>
        LET its == pr_response.comments.items
        IN  /\ pr_out.kind = "return"
            /\ \A k \in 1..Len(its) :
                  UnknownSeverity(its[k]) =>
                      pr_out.comments = ParseResponse(WithItems(RemoveAt(its, k)), OnePath).comments
            /\ (\A k \in 1..Len(its) : WellFormed(its[k]) \/ UnknownSeverity(its[k])) =>
                  pr_out.comments = DirectAll(SelectSeq(its, WellFormed))

\* An unknown severity in front of a well-formed comment object, which is returned.
C7_Witness ==
    /\ ParsedObjects /\ Len(pr_response.comments.items) = 2
    /\ UnknownSeverity(pr_response.comments.items[1])
    /\ WellFormed(pr_response.comments.items[2])
    /\ pr_out.comments = <<Direct(pr_response.comments.items[2])>>

\* The fields other than the severity are absent or of their type.
OtherFieldsFine(it) ==
    /\ it.line_start.t \in {"absent", "int"}
    /\ it.line_end.t \in {"absent", "int"}
    /\ it.category.t \in {"absent", "str"}
    /\ it.message.t \in {"absent", "str"}
    /\ it.severity.t \in {"absent", "str"}

ParsedFineObjects ==
    /\ ParsedObjects
    /\ \A k \in 1..Len(pr_response.comments.items) :
          OtherFieldsFine(pr_response.comments.items[k])

\* The severity is missing or one of the four recognised strings.
SeverityKept(it) ==
    it.severity.t = "absent" \/ (it.severity.t = "str" /\ it.severity.s \in Severity)

\* C8 as stated: an unknown or missing severity yields severity SUGGESTION and an
\* absent category yields category "best-practice" in the Finding of the object.
C8_UnknownSeverityIsSuggestion ==
    ParsedFineObjects =>
        LET its == pr_response.comments.items
        IN  /\ Len(pr_out.comments) = Len(its)
            /\ \A k \in 1..Len(its) :
                  /\ ~(its[k].severity.t = "str" /\ its[k].severity.s \in Severity) =>
                        pr_out.comments[k].severity = "suggestion"
                  /\ its[k].category.t = "absent" =>
                        pr_out.comments[k].category = "best-practice"

\* C8 as amended: a missing severity yields SUGGESTION and an absent category
\* yields "best-practice"; a comment object whose severity string is unknown
\* yields no Finding at all.
C8_MissingSeverityIsSuggestion ==
    ParsedFineObjects =>
        LET kept == SelectSeq(pr_response.comments.items, SeverityKept)
        IN  /\ Len(pr_out.comments) = Len(kept)
            /\ \A k \in 1..Len(kept) :
                  /\ pr_out.comments[k].severity =
                        IF kept[k].severity.t = "absent" THEN "suggestion"
                        ELSE kept[k].severity.s
                  /\ pr_out.comments[k].category =
                        IF kept[k].category.t = "absent" THEN "best-practice"
                        ELSE kept[k].category.s

\* An object without severity and category becomes a suggestion of category
\* best-practice; the object with an unknown severity beside it becomes nothing.
C8_Witness ==
    /\ ParsedFineObjects /\ Len(pr_response.comments.items) = 2
    /\ pr_response.comments.items[1].severity.t = "absent"
    /\ pr_response.comments.items[1].category.t = "absent"
    /\ UnknownSeverity(pr_response.comments.items[2])
    /\ Len(pr_out.comments) = 1
    /\ pr_out.comments[1].severity = "suggestion"
    /\ pr_out.comments[1].category = "best-practice"

\* C9: a comment object of a valid envelope that lacks line_start or message
\* produces no Finding (there are at most as many findings as objects holding
\* both), and the well-formed objects of the response are still returned.
C9_MissingRequiredFieldDropped ==
    ParsedObjects =>
        LET its == pr_response.comments.items
            complete == {k \in 1..Len(its) :
                            its[k].line_start.t # "absent" /\ its[k].message.t # "absent"}
        IN  /\ Len(pr_out.comments) <= Cardinality(complete)
            /\ Len(pr_out.comments) >= Len(SelectSeq(its, WellFormed))

\* C10: every Finding has a positive line_start, a line_end that is unset or at
\* least line_start, and a non-empty message.
C10_FindingInvariant ==
    pr_out.kind = "return" =>
        \A k \in 1..Len(pr_out.comments) :
            /\ pr_out.comments[k].line_start >= 1
            /\ pr_out.comments[k].line_end.t = "int" =>
                  pr_out.comments[k].line_end.n >= pr_out.comments[k].line_start
            /\ pr_out.comments[k].message # ""


(***************************************************************************)
(* Claims about model resolution (specification SpecModel).                *)
(***************************************************************************)
\* C11: the effective model of a run is the explicit override (--model) if
\* set, otherwise the model of the provider config if set, otherwise the
\* hardcoded default of the selected provider, for every provider name.
\* em_config holds the selected provider after setup; the model it was loaded
\* with is kept wherever no override replaced it.
C11_ResolutionOrder ==
    em_pc = "resolved" =>
        em_out = IF Truthy(em_cli.model) THEN em_cli.model
                 ELSE IF Truthy(em_config.model) THEN em_config.model
                 ELSE DefaultModel(em_config.name)

(***************************************************************************)
(* Claims about _parse_diff (specification SpecDiff).                      *)
(***************************************************************************)
\* The members of a set of positions in increasing order.
RECURSIVE Ascending(_)
Ascending(S) ==
    IF S = {} THEN <<>>
    ELSE LET least == CHOOSE x \in S : \A y \in S : x <= y
         IN  <<least>> \o Ascending(S \ {least})

\* Positions of the lines of the diff that start with "diff --git".
HeaderLines == {k \in 1..Len(pd_diff) : pd_diff[k] # <<>> /\ Head(pd_diff[k]) = HeaderMark}

\* The line contains " b/" / the text after its last " b/".
HasBMark(line) == \E k \in 1..Len(line) : line[k] = BMark
PathOf(line) ==
    LET k == CHOOSE m \in 1..Len(line) :
                 line[m] = BMark /\ \A l \in (m + 1)..Len(line) : line[l] # BMark
    IN  [l \in 1..(Len(line) - k) |-> line[k + l]]

\* Header lines with a non-empty path after " b/".
ParseableHeaderLines == {k \in HeaderLines : HasBMark(pd_diff[k]) /\ PathOf(pd_diff[k]) # <<>>}

\* C12 as stated: a diff with k lines starting with "diff --git" yields exactly
\* k units in header order, each with the path that follows " b/" in its
\* header; the empty string and a diff with no header yield zero units.
C12_OneUnitPerHeader ==
    pd_done =>
        LET hs == Ascending(HeaderLines)
        IN  /\ Len(pd_out) = Len(hs)
            /\ \A j \in 1..Len(hs) :
                   HasBMark(pd_diff[hs[j]]) => pd_out[j].path = PathOf(pd_diff[hs[j]])

\* C12 amended: the units are, in header order, those of the header lines that
\* have a non-empty path after their last " b/", each with that path; the
\* empty string and a diff with no such header yield zero units.
C12_OneUnitPerParseableHeader ==
    pd_done =>
        LET hs == Ascending(ParseableHeaderLines)
        IN  /\ Len(pd_out) = Len(hs)
            /\ \A j \in 1..Len(hs) : pd_out[j].path = PathOf(pd_diff[hs[j]])

\* Three headers, one of them without a path: two units with different paths.
C12_Witness ==
    /\ pd_done /\ Cardinality(HeaderLines) = 3
    /\ Len(pd_out) = 2 /\ pd_out[1].path # pd_out[2].path

\* C13 as stated: a header line with no " b/" makes the segmenter emit a
\* unit with a null path for that header.
C13_NullPathUnitEmitted ==
    pd_done =>
        \A k \in HeaderLines :
            ~HasBMark(pd_diff[k]) =>
                \E j \in 1..Len(pd_out) :
                    pd_out[j].path = NullPath /\ pd_out[j].diff[1] = pd_diff[k]

\* The lines of all units, one after the other.
RECURSIVE UnitLines(_, _)
UnitLines(units, n) ==
    IF n = 0 THEN <<>> ELSE UnitLines(units, n - 1) \o units[n].diff

\* The header line that governs position k: the last header at or before k.
OpenHeader(k) ==
    LET before == {h \in HeaderLines : h <= k}
    IN  IF before = {} THEN 0 ELSE CHOOSE h \in before : \A g \in before : g <= h

\* C13 amended: a header line whose path cannot be parsed emits no unit: no
\* unit has a null or empty path, and the units hold exactly the lines that
\* follow a header with a path, so the header and the lines up to the next
\* header are discarded and nothing is left for the caller to skip.
C13_UnparseableHeaderDropped ==
    pd_done =>
        LET kept == Ascending({k \in 1..Len(pd_diff) : OpenHeader(k) \in ParseableHeaderLines})
        IN  /\ \A j \in 1..Len(pd_out) : pd_out[j].path \notin {NullPath, <<>>}
            /\ UnitLines(pd_out, Len(pd_out)) = [n \in 1..Len(kept) |-> pd_diff[kept[n]]]

\* A header with no " b/", a line after it, then a header with a path: one unit.
C13_Witness ==
    /\ pd_done /\ Len(pd_diff) = 3
    /\ pd_diff[1] = <<HeaderMark, " a/", "g">> /\ pd_diff[2] = <<"+">>
    /\ Len(pd_out) = 1 /\ pd_out[1].diff = <<pd_diff[3]>>

\* The position of the first header line after position h, or one past the
\* end of the diff.
NextHeader(h) ==
    LET later == {g \in HeaderLines : g > h}
    IN  IF later = {} THEN Len(pd_diff) + 1
        ELSE CHOOSE g \in later : \A f \in later : g <= f

\* The text of the lines from position a to position b of the diff, a newline
\* after each line but the last.
RECURSIVE TextOfLines(_, _)
TextOfLines(a, b) ==
    IF a > b THEN <<>>
    ELSE IF a = b THEN pd_diff[a]
    ELSE TextOfLines(a, b - 1) \o <<"\n">> \o pd_diff[b]

\* C25 as stated: the units are those of the header lines, and the diff text
\* of each is its header line and the lines up to the next header line joined
\* by newlines, so that only the lines before the first header are in no unit.
C25_NoLineAfterFirstHeaderLost ==
    pd_done =>
        LET hs == Ascending(HeaderLines)
        IN  /\ Len(pd_out) = Len(hs)
            /\ \A j \in 1..Len(hs) :
                   j <= Len(pd_out) =>
                       JoinLines(pd_out[j].diff) = TextOfLines(hs[j], NextHeader(hs[j]) - 1)

\* C25 amended: the same for the header lines that have a path; the lines
\* before the first header, and a header line without a path together with
\* the lines up to the next header line, are in no unit.
C25_UnitIsHeaderAndLinesToNextHeader ==
    pd_done =>
        LET hs == Ascending(ParseableHeaderLines)
        IN  /\ Len(pd_out) = Len(hs)
            /\ \A j \in 1..Len(hs) :
                   JoinLines(pd_out[j].diff) = TextOfLines(hs[j], NextHeader(hs[j]) - 1)

\* A line before the first header, the header of f.py and a line after it:
\* one unit whose text is the header, a newline and that line.
C25_Witness ==
    /\ pd_done /\ Len(pd_diff) = 3
    /\ pd_diff[1] = <<"+">> /\ HeaderLines = {2} /\ pd_diff[3] = <<"+++", BMark, "g">>
    /\ Len(pd_out) = 1
    /\ JoinLines(pd_out[1].diff) = pd_diff[2] \o <<"\n">> \o pd_diff[3]

(***************************************************************************)
(* Claims about _extract_json, applied by OllamaProvider.review to the     *)
(* reply text (specification SpecReview).                                  *)
(***************************************************************************)
\* Positions of "{" in the text, and the raw depth after position k counted
\* from position first.
OpenBraces(text) == {k \in 1..Len(text) : text[k] = "{"}
DepthAfter(text, first, k) ==
    Cardinality({l \in first..k : text[l] = "{"}) - Cardinality({l \in first..k : text[l] = "}"})

\* Positions of a "}" that leaves the depth counted from position first at zero.
BalancingCloses(text, first) ==
    {k \in first..Len(text) : text[k] = "}" /\ DepthAfter(text, first, k) = 0}

Least(S) == CHOOSE x \in S : \A y \in S : x <= y

\* The review of the Ollama provider ran on a reply the backend delivered.
ExtractionRan == rv_provider = "ollama" /\ rv_out.kind # "none" /\ rv_reply.status = "ok"

\* C14 as stated: for every text the extraction is the substring from the
\* first "{" to the first "}" that brings the raw depth back to zero, and
\* "{}" when the text has no "{".
C14_BalancedSubstringForEveryText ==
    ExtractionRan =>
        LET text == rv_reply.text
            opens == OpenBraces(text)
        IN  IF opens = {} THEN ExtractJson(text) = <<"{", "}">>
            ELSE /\ BalancingCloses(text, Least(opens)) # {}
                 /\ ExtractJson(text) =
                        SubSeq(text, Least(opens), Least(BalancingCloses(text, Least(opens))))

\* C14 amended: the same, and "{}" as well when the text has a "{" but no "}"
\* brings the depth back to zero.
C14_BalancedSubstringOrEmptyObject ==
    ExtractionRan =>
        LET text == rv_reply.text
            opens == OpenBraces(text)
        IN  IF opens = {} THEN ExtractJson(text) = <<"{", "}">>
            ELSE IF BalancingCloses(text, Least(opens)) = {}
                 THEN ExtractJson(text) = <<"{", "}">>
                 ELSE ExtractJson(text) =
                        SubSeq(text, Least(opens), Least(BalancingCloses(text, Least(opens))))

\* Prose before an object: the object alone is returned, and it parses.
C14_Witness ==
    /\ ExtractionRan
    /\ rv_reply.text = <<"w", "{", "K", "}">>
    /\ ExtractJson(rv_reply.text) = <<"{", "K", "}">>
    /\ rv_out.kind = "return"

(***************************************************************************)
(* Claims about ProviderFactory (specification SpecFactory).               *)
(***************************************************************************)
\* C15 as stated: create lower-cases the name; a registered name returns an
\* instance of the registered constructor built with the supplied options,
\* any other name raises ValueError with the requested name and every
\* registered name in its message; the registry is not changed.
C15_CreateReturnsOrNamesRequest ==
    [][fa_out'.op = "create" =>
         LET registry == EnsureRegistered(fa_providers)
             lowered == Lower(fa_out'.name)
         IN  /\ EnsureRegistered(fa_providers') = registry
             /\ IF DictHas(registry, lowered)
                THEN /\ fa_out'.kind = "return"
                     /\ fa_out'.cls = DictGetClass(registry, lowered)
                     /\ fa_out'.options = fa_out'.kwargs
                ELSE /\ fa_out'.kind = "raise" /\ fa_out'.exc = "ValueError"
                     /\ fa_out'.msg_name = fa_out'.name
                     /\ fa_out'.listed = DictKeys(registry)]_vars

\* C15 amended: as stated, except that the message names the lower-cased
\* name, and that a registered constructor that does not take one of the
\* supplied options raises its TypeError in place of an instance.
C15_CreateReturnsOrNamesLoweredRequest ==
    [][fa_out'.op = "create" =>
         LET registry == EnsureRegistered(fa_providers)
             lowered == Lower(fa_out'.name)
         IN  /\ EnsureRegistered(fa_providers') = registry
             /\ IF DictHas(registry, lowered)
                THEN IF KeywordsOf(fa_out'.kwargs) \subseteq Parameters(DictGetClass(registry, lowered))
                     THEN /\ fa_out'.kind = "return"
                          /\ fa_out'.cls = DictGetClass(registry, lowered)
                          /\ fa_out'.options = fa_out'.kwargs
                     ELSE fa_out'.kind = "raise" /\ fa_out'.exc = "TypeError"
                ELSE /\ fa_out'.kind = "raise" /\ fa_out'.exc = "ValueError"
                     /\ fa_out'.msg_name = lowered
                     /\ fa_out'.listed = DictKeys(registry)]_vars

\* create("Anthropic", model=...) after a registration under that name.
C15_Witness ==
    /\ fa_out.op = "create" /\ fa_out.name = "Anthropic" /\ fa_out.kind = "return"
    /\ fa_out.cls = "GroqProvider" /\ fa_out.options = {<<"model", "llama3">>}

\* C16: after register(name, constructor) in any letter case, create,
\* get_provider_class and available_providers resolve the constructor last
\* registered under the lower-cased name, whatever the letter case of the
\* lookup name; the default providers stay registered (with their default
\* class unless re-registered) even when register is the first operation.
C16_RegisteredUnderLoweredName ==
    LET lowered == Lower(fa_out.name)
        isRegistered == lowered \in DOMAIN fa_log /\ fa_log[lowered] # None
    IN  /\ \A n \in DOMAIN fa_log :
               fa_log[n] # None => DictGetClass(fa_providers, n) = fa_log[n]
        /\ fa_out.op = "get_provider_class" /\ isRegistered => fa_out.cls = fa_log[lowered]
        /\ fa_out.op = "create" /\ isRegistered =>
               IF KeywordsOf(fa_out.kwargs) \subseteq Parameters(fa_log[lowered])
               THEN fa_out.kind = "return" /\ fa_out.cls = fa_log[lowered]
               ELSE fa_out.exc = "TypeError"
        /\ fa_out.op = "available_providers" =>
               \A n \in DOMAIN fa_log :
                   fa_log[n] # None => \E k \in 1..Len(fa_out.listed) : fa_out.listed[k] = n
        /\ fa_out.op # "none" =>
               \A k \in 1..Len(DefaultRegistry) :
                   LET d == DefaultRegistry[k]
                   IN  /\ DictHas(fa_providers, d.name)
                       /\ (d.name \notin DOMAIN fa_log \/ fa_log[d.name] = None)
                              => DictGetClass(fa_providers, d.name) = d.cls

\* A lookup in another letter case finds the class registered as "anthropic",
\* beside the two defaults.
C16_Witness ==
    /\ fa_out.op = "get_provider_class" /\ fa_out.name = "Anthropic"
    /\ fa_out.cls = "GroqProvider"
    /\ DictKeys(fa_providers) = <<"openai", "ollama", "anthropic">>
    /\ fa_log["openai"] = None

(***************************************************************************)
(* Claims about errors in review_files (specification Spec).               *)
(***************************************************************************)
\* The reviewer has no provider yet and its config names one that is not
\* registered.
UnknownProviderConfigured ==
    provider = None /\ ~DictHas(EnsureRegistered(fa_providers), Lower(config.provider))

\* C17: a reviewer configured with an unknown provider name fails a review
\* run with a configuration error before any backend request: the run never
\* returns a result, no review call is made, and the error is the
\* unknown-provider ValueError.
C17_MisconfiguredRunFails ==
    UnknownProviderConfigured =>
        /\ calls = <<>>
        /\ pc # "done"
        /\ pc = "raised" => error = "ValueError"

\* C18: when provider.review raises for the k-th non-ignored file the error
\* propagates: the run ends raised with no result, every call but the
\* failing one has returned, and the calls made are exactly the non-ignored
\* files up to the failing one, each once, so the failing file is not
\* retried and no later file is reviewed.
C18_ReviewErrorPropagates ==
    /\ Len(calls) = Len(returned) \/ Len(calls) = Len(returned) + 1
    /\ Len(calls) = Len(returned) + 1 =>
           /\ pc = "raised" /\ error # "" /\ result = NoResult
           /\ calls = KeptUpTo(i)
           /\ calls[Len(calls)] = i
    /\ pc = "raised" => result = NoResult

\* The review of the first of two non-ignored files raised.
C18_Witness ==
    /\ pc = "raised" /\ calls = <<1>> /\ returned = <<>>
    /\ Len(files) = 2 /\ ~MatchesSomePattern(files[2])
    /\ error = "RuntimeError"

(***************************************************************************)
(* Claims about the backend call of review (specification SpecReview).     *)
(***************************************************************************)
\* The backend call of the review raised a transport error.
TransportErrorRaised == rv_out.kind # "none" /\ rv_reply.status # "ok"

\* C19 as stated: for every provider a transport error raised by the backend
\* call reaches the caller of review as the same error, and the request is
\* not retried.
C19_TransportErrorUnmodified ==
    TransportErrorRaised =>
        /\ rv_out.kind = "raise" /\ rv_out.exc = rv_reply.status
        /\ Len(rv_requests) = 1

\* C19 amended: the error reaches the caller and the request is not retried;
\* it is the same error, except that the Ollama provider raises RuntimeError
\* in place of a RequestError (connection refused, timeout).
C19_TransportErrorPropagates ==
    TransportErrorRaised =>
        /\ rv_out.kind = "raise"
        /\ rv_out.exc = IF rv_provider = "ollama" /\ rv_reply.status = "RequestError"
                        THEN "RuntimeError" ELSE rv_reply.status
        /\ Len(rv_requests) = 1

\* A refused connection in the Ollama provider.
C19_Witness ==
    /\ TransportErrorRaised /\ rv_provider = "ollama" /\ rv_reply.status = "RequestError"
    /\ rv_out.exc = "RuntimeError" /\ rv_requests = <<"POST /api/generate">>

C21_HandleOnceAndNothingElse ==
    [][(cl_out'.op = "review") =>
          /\ cl_made' <= 1
          /\ (cl_self._client # 0 => cl_self'._client = cl_self._client)
          /\ cl_self'._model = cl_self._model
          /\ cl_self'.cls = cl_self.cls]_vars

\* C22: every holder has a release operation that never raises, is a no-op
\* on a holder without a handle, and leaves the handle unset so that the
\* next use constructs a fresh one.
C22_ReleaseExposedAndIdempotent ==
    [][/\ (cl_out'.op = "close") =>
             /\ cl_out'.exc = ""
             /\ cl_self'._client = 0
             /\ (cl_self._client = 0 => cl_self' = cl_self /\ cl_made' = cl_made)
       /\ (cl_out.op = "close" /\ cl_out'.op \in {"review", "request", "validate_config"}) =>
             /\ cl_made' = cl_made + 1
             /\ cl_self'._client = cl_made'
             /\ cl_self'._client \notin cl_closed']_vars

(***************************************************************************)
(* Claims about the result properties and the exit code (SpecResult).      *)
(***************************************************************************)
\* The finding whose line range was read.
ReadFinding == rs_outcome.result.comments[rs_out.k]

\* C23: line_range is str(line_start) when line_end is unset or equal to
\* line_start, and "<line_start>-<line_end>" for every set line_end that
\* differs from line_start.
C23_RangeForEverySetEnd ==
    rs_out.op = "line_range" =>
        rs_out.line_range =
            IF ReadFinding.line_end = JNull \/ ReadFinding.line_end.n = ReadFinding.line_start
            THEN Str(ReadFinding.line_start)
            ELSE Str(ReadFinding.line_start) \o <<"-">> \o Str(ReadFinding.line_end.n)

\* The findings of the result whose properties were read.
ReadComments == rs_outcome.result.comments

\* The number of findings of a sequence that have the severity.
NumberOf(comments, severity) ==
    Cardinality({k \in DOMAIN comments : comments[k].severity = severity})

\* The result with its findings rearranged by the permutation p of the positions.
Permuted(p) == [comments |-> [k \in DOMAIN ReadComments |-> ReadComments[p[k]]]]

\* C24: has_critical_issues is true iff some finding has severity critical,
\* the three counts are the exact numbers of findings of their severity, and
\* every permutation of the findings gives the same four values.
C24_CountsExactAndOrderFree ==
    rs_out.op = "counts" =>
        /\ rs_out.has_critical_issues
              = (\E k \in DOMAIN ReadComments : ReadComments[k].severity = "critical")
        /\ rs_out.critical_count = NumberOf(ReadComments, "critical")
        /\ rs_out.warning_count = NumberOf(ReadComments, "warning")
        /\ rs_out.suggestion_count = NumberOf(ReadComments, "suggestion")
        /\ \A p \in Permutations(DOMAIN ReadComments) :
              /\ HasCriticalIssues(Permuted(p)) = rs_out.has_critical_issues
              /\ CriticalCount(Permuted(p)) = rs_out.critical_count
              /\ WarningCount(Permuted(p)) = rs_out.warning_count
              /\ SuggestionCount(Permuted(p)) = rs_out.suggestion_count

\* The counts were read from a result with a critical finding followed by a
\* finding of severity info.
C24_Witness ==
    /\ rs_out.op = "counts" /\ Len(ReadComments) >= 2
    /\ ReadComments[1].severity = "critical" /\ ReadComments[2].severity = "info"
    /\ rs_out.has_critical_issues /\ rs_out.critical_count = 1
    /\ rs_out.suggestion_count = 0

\* C27: a review command exits with code 1 when the completed result has a
\* critical finding, with code 0 when it completes without one, and with
\* code 1 when the review raises an exception.
C27_ExitCodeFromCriticalFindings ==
    rs_out.op = "exit" =>
        rs_out.exit_code =
            IF rs_outcome.kind = "raise" THEN 1
            ELSE IF \E k \in DOMAIN ReadComments : ReadComments[k].severity = "critical"
                 THEN 1 ELSE 0

\* The command exited with code 1 after a review that returned a result
\* whose last finding is the only critical one.
C27_Witness ==
    /\ rs_out.op = "exit" /\ rs_outcome.kind = "return" /\ rs_out.exit_code = 1
    /\ Len(ReadComments) >= 2
    /\ ReadComments[1].severity = "warning"
    /\ ReadComments[Len(ReadComments)].severity = "critical"

(***************************************************************************)
(* Claims about review_diff and review_file (specification SpecEntry).     *)
(***************************************************************************)
\* The units of the diff of the call: the header lines with a path, each with
\* its lines up to the next header line.
RECURSIVE UnitsFrom(_, _)
UnitsFrom(diff, k) ==
    IF k > Len(diff) THEN <<>>
    ELSE IF diff[k] # <<>> /\ Head(diff[k]) = HeaderMark
    THEN LET later == {g \in (k + 1)..Len(diff) : diff[g] # <<>> /\ Head(diff[g]) = HeaderMark}
             next == IF later = {} THEN Len(diff) + 1
                     ELSE CHOOSE g \in later : \A f \in later : g <= f
         IN  (IF HasBMark(diff[k]) /\ PathOf(diff[k]) # <<>>
              THEN <<[path |-> PathOf(diff[k]), diff |-> SubSeq(diff, k, next - 1),
                      language |-> DetectLanguage(PathOf(diff[k]))]>>
              ELSE <<>>) \o UnitsFrom(diff, next)
    ELSE UnitsFrom(diff, k + 1)

\* C26: review_diff(d) is review_files of the units of d; review_file(path,
\* content) is review_files of the one FileChange with that path and content,
\* where the content is read from the path only when none is supplied (a
\* supplied empty string is used as it is).
C26_EntryPointsDelegate ==
    /\ (en_call.op = "review_diff" /\ en_out # NoEntryCall) =>
           en_out = DelegatesTo(UnitsFrom(en_call.diff, 1), FALSE)
    /\ (en_call.op = "review_file" /\ en_out # NoEntryCall) =>
           /\ en_out.read = (en_call.content = JNull)
           /\ en_call.content # JNull =>
                  /\ en_out.kind = "review_files" /\ Len(en_out.files) = 1
                  /\ en_out.files[1].path = en_call.path
                  /\ en_out.files[1].content = en_call.content
           /\ (en_call.content = JNull /\ en_call.disk # JAbsent) =>
                  /\ en_out.kind = "review_files" /\ Len(en_out.files) = 1
                  /\ en_out.files[1].path = en_call.path
                  /\ en_out.files[1].content = en_call.disk

\* review_file was called with the empty string as content while the file on
\* disk has text: the FileChange holds the empty string and nothing was read.
C26_Witness ==
    /\ en_call.op = "review_file" /\ en_call.content = JStr("")
    /\ en_call.disk = JStr("y = 2")
    /\ en_out.kind = "review_files" /\ ~en_out.read
    /\ en_out.files[1].content = JStr("")

(***************************************************************************)
(* Claims about the model names of a run (specification SpecProvenance).   *)
(***************************************************************************)
\* C28: in a review_files run that processes at least one file, the model
\* name of every backend request is the model_used of the returned result.
C28_ModelUsedIsModelSent ==
    (pv_out.kind = "return" /\ pv_sent # <<>>) =>
        \A k \in 1..Len(pv_sent) : pv_sent[k] = pv_out.model_used

(***************************************************************************)
(* Further claims about ProviderFactory (specification SpecFactory).       *)
(***************************************************************************)
\* The keys of the registry.
RegistryKeys == {fa_providers[k].name : k \in 1..Len(fa_providers)}

\* C29: after any sequence of factory operations every key of the registry
\* is lower-case, "openai" and "ollama" are keys, and every name ever given
\* to register is still a key (in lower case); once the registry is
\* populated, only register changes it.
C29_RegistryKeepsItsKeys ==
    /\ [](fa_out.op # "none" =>
             /\ \A key \in RegistryKeys : Lower(key) = key
             /\ {"openai", "ollama"} \subseteq RegistryKeys
             /\ \A name \in DOMAIN fa_log : fa_log[name] # None => name \in RegistryKeys)
    /\ [][(fa_providers # <<>> /\ fa_out'.op # "register") =>
              fa_providers' = fa_providers]_vars

\* A create call for an unknown name failed after "Anthropic" was registered:
\* the registry holds the two defaults and "anthropic".
C29_Witness ==
    /\ fa_out.op = "create" /\ fa_out.kind = "raise" /\ fa_out.exc = "ValueError"
    /\ fa_log["anthropic"] # None
    /\ RegistryKeys = {"openai", "ollama", "anthropic"}

\* C30: without a custom registration, create as the reviewer of a CLI run
\* calls it succeeds for every name the --provider option accepts.
C30_CliProvidersConstructible ==
    (/\ fa_out.op = "create" /\ fa_out.name \in CliProviders
     /\ fa_out.kwargs = ReviewerKwargs
     /\ \A name \in DOMAIN fa_log : fa_log[name] = None) =>
        fa_out.kind = "return"

============================================================================
